---- MODULE Spec2Model ----
(***************************************************************************)
(* irish-mcp-gateway: JSON-RPC envelope, tool registry, method dispatch    *)
(* (HTTP handler and stdio line handler) and the bounded retry wrapper     *)
(* used by the remote adapters.                                            *)
(*                                                                         *)
(* JSON values (serde_json::Value) are tagged records; Option<T> is a      *)
(* sequence of length 0 or 1; Result<T,E> is a record with an `ok` flag;   *)
(* a String that the claims inspect is a sequence of string fragments      *)
(* whose concatenation is the Rust string.                                 *)
(***************************************************************************)
EXTENDS Integers, Sequences, FiniteSets, TLC

\* ------------------------------------------------------------------ bounds
MaxId == 2
MaxRetries == 7
\* requests answered by other tasks while one call waits
MaxOthers == 1
\* the latest clock value (ms) at which a front end takes a new request
MaxClockMs == 50
\* the time one POST takes from send() to the head of the response, in ms
\* of the clock
RoundTripMs == 50

\* ------------------------------------------------------- Option and Result
None == << >>
Some(x) == << x >>

Ok(v) == [ok |-> TRUE, v |-> v]
Err(e) == [ok |-> FALSE, e |-> e]

\* --------------------------------------------------------------- JSON (J)
JNull == [t |-> "null"]
JStr(s) == [t |-> "str", s |-> s]
JNum(n) == [t |-> "num", n |-> n]
JArr(a) == [t |-> "arr", a |-> a]
JObj(o) == [t |-> "obj", o |-> o]
EmptyMap == [k \in {} |-> JNull]

\* serde_json::Value::get(&str): Some(member) for an object that has the key
Get(j, k) == IF j.t = "obj" /\ k \in DOMAIN j.o THEN Some(j.o[k]) ELSE None
\* serde_json::Value::as_str
AsStr(j) == IF j.t = "str" THEN Some(j.s) ELSE None
\* v.get(k).and_then(|v| v.as_str())
GetStr(j, k) == IF Get(j, k) = None THEN None ELSE AsStr(Get(j, k)[1])

\* the String a sequence of fragments stands for
RECURSIVE Concat(_)
Concat(frags) ==
    IF frags = << >> THEN "" ELSE Head(frags) \o Concat(Tail(frags))

\* str::contains(&str) on two strings: pat is a substring of s
StrContains(s, pat) ==
    \E i \in 1..(Len(s) - Len(pat) + 1) : SubSeq(s, i, i + Len(pat) - 1) = pat

\* msg.contains(pat) on a message held as its fragments
Contains(msg, pat) == StrContains(Concat(msg), pat)

\* -------------------------------------------------- envelope (core/mcp.rs)
rpc_ok(id, result) ==
    [jsonrpc |-> "2.0", id |-> id, result |-> Some(result), error |-> None]

\* rpc_err as it would be with the result left set next to the error
rpc_err_keeps_result(id, code, msg, data) ==
    [jsonrpc |-> "2.0", id |-> id, result |-> Some(JNull),
     error |-> Some([code |-> code, message |-> msg, data |-> data])]

\* rpc_err as it would be with the message cut down to its fixed prefix
rpc_err_cuts_message(id, code, msg, data) ==
    [jsonrpc |-> "2.0", id |-> id, result |-> None,
     error |-> Some([code |-> code, message |-> <<msg[1]>>, data |-> data])]

rpc_err(id, code, msg, data) ==
    [jsonrpc |-> "2.0", id |-> id, result |-> None,
     error |-> Some([code |-> code, message |-> msg, data |-> data])]

\* ------------------------------------------- envelope (infra/http/json.rs)
http_json_ok(id, result) == rpc_ok(id, result)

\* http_json::error as it would be if it did not pass the id on
http_json_error_drops_id(id, code, message) ==
    rpc_err(JNull, code, message, None)

http_json_error(id, code, message) == rpc_err(id, code, message, None)

\* parse_error as it would be with the invalid-request code
parse_error_wrong_code(message) ==
    [jsonrpc |-> "2.0", id |-> JNull, result |-> None,
     error |-> Some([code |-> -32600, message |-> message, data |-> None])]

parse_error(message) ==
    [jsonrpc |-> "2.0", id |-> JNull, result |-> None,
     error |-> Some([code |-> -32700, message |-> message, data |-> None])]

\* core/error.rs: GatewayError::Message(String) and its Display ("{0}")
GatewayErrorMessage(e) == [variant |-> "Message", f0 |-> e]
GatewayErrorToString(ge) == ge.f0

\* from_gateway_error as it would be if it wrapped the Debug form of the error
from_gateway_error_debug_form(id, gerr) ==
    http_json_error(id, -32000,
                    <<"Message(">> \o GatewayErrorToString(gerr) \o <<")">>)

from_gateway_error(id, gerr) ==
    http_json_error(id, -32000, GatewayErrorToString(gerr))

\* serde: RpcReq { jsonrpc: String, id: J, method: String, #[serde(default)] params: J }
\* The derived Deserialize takes a JSON object (visit_map; unknown members
\* are ignored) or a JSON array of the fields in declaration order
\* (visit_seq; a missing fourth element is the default of params).
\* the fields an array gives, before the test for elements left over
DecodeRpcReqSeq(a) ==
    IF /\ Len(a) >= 3
       /\ a[1].t = "str"
       /\ a[3].t = "str"
    THEN Some([jsonrpc |-> a[1].s,
               id |-> a[2],
               method |-> a[3].s,
               params |-> IF Len(a) >= 4 THEN a[4] ELSE JNull])
    ELSE None

\* serde_json's end_seq after visit_seq: an element after the fourth is
\* the syntax error "trailing characters"
TrailingElements(j) ==
    j.t = "arr" /\ DecodeRpcReqSeq(j.a) # None /\ Len(j.a) > 4

DecodeRpcReq(j) ==
    IF j.t = "arr"
    THEN IF TrailingElements(j) THEN None ELSE DecodeRpcReqSeq(j.a)
    ELSE IF /\ j.t = "obj"
            /\ GetStr(j, "jsonrpc") # None
            /\ Get(j, "id") # None
            /\ GetStr(j, "method") # None
         THEN Some([jsonrpc |-> GetStr(j, "jsonrpc")[1],
                    id |-> Get(j, "id")[1],
                    method |-> GetStr(j, "method")[1],
                    params |-> IF Get(j, "params") = None THEN JNull
                               ELSE Get(j, "params")[1]])
         ELSE None

\* serde_json::from_str(line) into RpcReq: the text must be JSON first
FromStrRpcReq(line) ==
    IF line.k = "json" THEN DecodeRpcReq(line.j) ELSE None

\* ------------------------------------------------------------ text values
\* A string the code parses or trims is a sequence of one-character strings;
\* a character that cannot be written in a string here is written as its
\* Rust escape.
\* char::is_whitespace: the characters with the Unicode property White_Space
WhiteSpace ==
    {"\t", "\n", "\\u{b}", "\f", "\r", " ", "\\u{85}", "\\u{a0}",
     "\\u{1680}", "\\u{2000}", "\\u{2001}", "\\u{2002}", "\\u{2003}",
     "\\u{2004}", "\\u{2005}", "\\u{2006}", "\\u{2007}", "\\u{2008}",
     "\\u{2009}", "\\u{200a}", "\\u{2028}", "\\u{2029}", "\\u{202f}",
     "\\u{205f}", "\\u{3000}"}
DigitChars == {"0", "1", "2", "3", "4", "5", "6", "7", "8", "9"}

RECURSIVE TrimStart(_)
TrimStart(s) ==
    IF s # << >> /\ Head(s) \in WhiteSpace THEN TrimStart(Tail(s)) ELSE s

RECURSIVE TrimEnd(_)
TrimEnd(s) ==
    IF s # << >> /\ s[Len(s)] \in WhiteSpace
    THEN TrimEnd(SubSeq(s, 1, Len(s) - 1)) ELSE s

\* str::trim
Trim(s) == TrimEnd(TrimStart(s))

DigitVal(c) ==
    CASE c = "0" -> 0 [] c = "1" -> 1 [] c = "2" -> 2 [] c = "3" -> 3
      [] c = "4" -> 4 [] c = "5" -> 5 [] c = "6" -> 6 [] c = "7" -> 7
      [] c = "8" -> 8 [] c = "9" -> 9

\* ------------------------------------------------------------------ usize
\* A usize is held as its decimal digits, most significant first, without
\* leading zeros (zero is <<0>>): the range of usize is wider than the
\* integers the checker computes with.
UsizeZero == <<0>>

\* usize::MAX: 18446744073709551615
UsizeMax == <<1, 8, 4, 4, 6, 7, 4, 4, 0, 7, 3, 7, 0, 9, 5, 5, 1, 6, 1, 5>>

\* 2^64
TwoPow64 == <<1, 8, 4, 4, 6, 7, 4, 4, 0, 7, 3, 7, 0, 9, 5, 5, 1, 6, 1, 6>>

RECURSIVE StripZeros(_)
StripZeros(d) ==
    IF Len(d) > 1 /\ Head(d) = 0 THEN StripZeros(Tail(d)) ELSE d

\* d with zeros in front, n digits long
Pad(d, n) ==
    [i \in 1..n |-> IF i <= n - Len(d) THEN 0 ELSE d[i - (n - Len(d))]]

\* a < b on numbers held as digits
NatLt(a, b) ==
    IF Len(a) # Len(b) THEN Len(a) < Len(b)
    ELSE \E i \in DOMAIN a :
            /\ a[i] < b[i]
            /\ \A j \in 1..(i - 1) : a[j] = b[j]

\* the carry into digit i of x + y
RECURSIVE Carry(_, _, _)
Carry(x, y, i) ==
    IF i = Len(x) THEN 0
    ELSE (x[i + 1] + y[i + 1] + Carry(x, y, i + 1)) \div 10

\* a + b on numbers held as digits
NatAdd(a, b) ==
    LET n == (IF Len(a) > Len(b) THEN Len(a) ELSE Len(b)) + 1
    IN StripZeros([i \in 1..n |->
            (Pad(a, n)[i] + Pad(b, n)[i] + Carry(Pad(a, n), Pad(b, n), i))
                % 10])

\* the borrow from digit i of x - y
RECURSIVE Borrow(_, _, _)
Borrow(x, y, i) ==
    IF i = Len(x) THEN 0
    ELSE IF x[i + 1] - y[i + 1] - Borrow(x, y, i + 1) < 0 THEN 1 ELSE 0

\* a - b on numbers held as digits, for a >= b
NatSub(a, b) ==
    LET n == Len(a)
    IN StripZeros([i \in 1..n |->
            (10 + a[i] - Pad(b, n)[i] - Borrow(a, Pad(b, n), i)) % 10])

\* the number, for one of at most 9 digits
RECURSIVE NatVal(_)
NatVal(d) ==
    IF d = << >> THEN 0
    ELSE 10 * NatVal(SubSeq(d, 1, Len(d) - 1)) + d[Len(d)]

\* a > b on usize
UsizeGt(a, b) == NatLt(b, a)

\* a + b on usize leaves the 64 bits
UsizeAddOverflows(a, b) == NatLt(UsizeMax, NatAdd(a, b))

\* a.wrapping_add(b)
UsizeWrappingAdd(a, b) ==
    IF UsizeAddOverflows(a, b) THEN NatSub(NatAdd(a, b), TwoPow64)
    ELSE NatAdd(a, b)

\* clients/gramadoir.rs parse_usize: s.parse::<usize>().unwrap_or(0);
\* usize::from_str takes an optional leading '+' and then decimal digits
\* only, and fails for a number above usize::MAX.
parse_usize(s) ==
    LET body == IF s # << >> /\ Head(s) = "+" THEN Tail(s) ELSE s
    IN IF body = << >> \/ (\E i \in DOMAIN body : body[i] \notin DigitChars)
       THEN UsizeZero
       ELSE IF NatLt(UsizeMax,
                     StripZeros([i \in DOMAIN body |-> DigitVal(body[i])]))
            THEN UsizeZero
            ELSE StripZeros([i \in DOMAIN body |-> DigitVal(body[i])])

\* ------------------------------------------------------- build profile
\* overflow-checks of the build: an overflowing integer addition panics
\* (TRUE: the dev and test profiles) or wraps (FALSE: the release profile)
VARIABLE overflow_checks

\* ------------------------------------------- domain (clients/gramadoir.rs)
\* a panic unwinding out of the function that was called
Panic(msg) == [ok |-> FALSE, panic |-> msg]
IsPanic(r) == "panic" \in DOMAIN r

\* a + b on usize: an overflow panics or wraps as the build profile says
UsizeAdd(a, b) ==
    IF UsizeAddOverflows(a, b) /\ overflow_checks
    THEN Panic(<<"attempt to add with overflow">>)
    ELSE [ok |-> TRUE, v |-> UsizeWrappingAdd(a, b)]

\* the block that computes end: if tox > 0 { tox } else { start + len }
GrammarIssueEnd(start, tox, len) ==
    IF UsizeGt(tox, UsizeZero) THEN [ok |-> TRUE, v |-> tox]
    ELSE UsizeAdd(start, len)

\* the struct literal, reached unless the block above panicked
GrammarIssueWith(w, start, end) ==
    IF IsPanic(end) THEN end
    ELSE [code |-> w.rule_id, message |-> w.msg, start |-> start,
          end |-> end.v, suggestions |-> << >>]

\* impl From<IssueWire> for GrammarIssue
GrammarIssueFrom(w) ==
    GrammarIssueWith(w, parse_usize(w.fromx),
                     GrammarIssueEnd(parse_usize(w.fromx), parse_usize(w.tox),
                                     parse_usize(w.errorlength)))

\* issues.into_iter().map(GrammarIssue::from).collect(): the first conversion
\* that panics ends it
CollectIssues(issues) ==
    IF \E i \in DOMAIN issues : IsPanic(issues[i])
    THEN issues[CHOOSE i \in DOMAIN issues :
                    /\ IsPanic(issues[i])
                    /\ \A j \in 1..(i - 1) : ~IsPanic(issues[j])]
    ELSE Ok(issues)

\* what analyze returns once retry_async has returned ret: res? and the
\* conversion of the wire issues
AnalyzeReturn(ret) ==
    IF ret.ok
    THEN CollectIssues([i \in DOMAIN ret.v |-> GrammarIssueFrom(ret.v[i])])
    ELSE ret

\* the JSON number of a usize: a number of at most 9 digits is held as an
\* integer, as the request ids and error codes are, a larger one as its digits
UsizeJson(v) == JNum(IF Len(v) <= 9 THEN NatVal(v) ELSE v)

\* serde Serialize of GrammarIssue (domain/mod.rs)
GrammarIssueJson(g) ==
    JObj([code |-> JStr(g.code), message |-> JStr(g.message),
          start |-> UsizeJson(g.start), end |-> UsizeJson(g.end),
          suggestions |-> JArr(g.suggestions)])

\* ------------------------------------------ retry (infra/runtime/limits.rs)
Min(a, b) == IF a <= b THEN a ELSE b

\* retry_async as a function of the results of the successive invocations of
\* op: op[n] is what the n-th invocation returns.  The value carries the
\* outcome, the attempt indices handed to op and the sleeps taken.
\* let mut delay_ms: u64 = 50
InitialDelayMs == 50
\* the ceiling of the backoff delay
MaxDelayMs == 1000

\* the exhaustion test one too early
Exhausted_one_early(left) == left <= 1

\* if attempts == 0 { return Err(e); }
Exhausted(left) == left = 0

\* try_num += 1
NextTry(n) == n + 1

\* the doubling without the ceiling
NextDelay_uncapped(d) == d * 2

\* delay_ms = (delay_ms * 2).min(1_000)
NextDelay(d) == Min(d * 2, MaxDelayMs)

RECURSIVE retry_loop(_, _, _, _, _, _)
retry_loop(left, n, d, op, calls, sleeps) ==
    LET r == op[Len(calls) + 1]
        calls1 == Append(calls, n)
    IN IF r.ok THEN [res |-> r, calls |-> calls1, sleeps |-> sleeps]
       ELSE IF Exhausted(left)
            THEN [res |-> r, calls |-> calls1, sleeps |-> sleeps]
            ELSE retry_loop(left - 1, NextTry(n), NextDelay(d), op, calls1,
                            Append(sleeps, d))

retry_async(n, op) == retry_loop(n, 0, InitialDelayMs, op, << >>, << >>)

\* ------------------------------------------ adapter (clients/gramadoir.rs)
UpTransport == [k |-> "transport"]
\* the request cannot be built (the URL has no base): send() fails before a
\* byte leaves the process
UpBuilder == [k |-> "builder"]
UpHttp(status, body) == [k |-> "http", status |-> status, body |-> body]

\* http::StatusCode: is_success, is_server_error, Display
IsSuccess(status) == status >= 200 /\ status <= 299
IsServerError(status) == status >= 500 /\ status <= 599
StatusText(status) ==
    CASE status = 200 -> "200 OK"
      [] status = 400 -> "400 Bad Request"
      [] status = 404 -> "404 Not Found"
      [] status = 500 -> "500 Internal Server Error"
      [] status = 503 -> "503 Service Unavailable"

\* One attempt of GramadoirRemote::analyze (the closure given to
\* retry_async), as a function of what the upstream does with the POST.
AnalyzeAttempt(up) ==
    IF up.k = "transport" THEN Err(<<"error sending request">>)
    ELSE IF up.k = "builder"
    THEN Err(<<"builder error: relative URL without a base">>)
    ELSE IF ~IsSuccess(up.status)
         THEN IF IsServerError(up.status)
              THEN Err(<<"retryable status", " ", StatusText(up.status)>>)
              ELSE Err(<<"upstream status", " ", StatusText(up.status)>>)
         ELSE IF up.body = None THEN Err(<<"error decoding response body">>)
              ELSE Ok(up.body[1])

\* GramadoirRemote::new: retries
GramadoirRetries == 2

\* GramadoirRemote::analyze: ups[n] is the upstream's answer to the n-th POST
analyze(retries, ups) ==
    LET run == retry_async(retries,
                           [n \in DOMAIN ups |-> AnalyzeAttempt(ups[n])])
    IN [res |-> AnalyzeReturn(run.res), posts |-> Len(run.calls)]

\* ------------------------------------------------- infra/http/headers.rs
\* generate_request_id at clock value t (ms since the epoch):
\* format!("gw-{}-{}", now.as_secs(), now.subsec_nanos())
generate_request_id(t) == <<"gw-", t \div 1000, "-", (t % 1000) * 1000000>>

\* the user-agent value: format!("irish-mcp-gateway/{}", CARGO_PKG_VERSION)
UserAgent == <<"irish-mcp-gateway/", "CARGO_PKG_VERSION">>

\* add_standard_headers(builder, request_id) at clock value t: the two
\* headers it puts on the request
add_standard_headers(request_id, t) ==
    [x_request_id |-> IF request_id = None THEN generate_request_id(t)
                      ELSE request_id[1],
     user_agent |-> UserAgent]

\* ------------------------------------------------- clients/gaelspell.rs
\* GaelspellRemote::new: retries
GaelspellRetries == 2

\* One attempt of GaelspellRemote::check (the closure given to retry_async),
\* as a function of what the upstream does with the POST.
CheckAttempt(up) ==
    IF up.k = "transport" THEN Err(<<"error sending request">>)
    ELSE IF up.k = "builder"
    THEN Err(<<"builder error: relative URL without a base">>)
    ELSE IF ~IsSuccess(up.status)
         THEN IF IsServerError(up.status)
              THEN Err(<<"retryable status", " ", StatusText(up.status)>>)
              ELSE Err(<<"upstream status", " ", StatusText(up.status)>>)
         ELSE IF up.body = None THEN Err(<<"error decoding response body">>)
              ELSE Ok(up.body[1])

\* impl From<TokenTupleWire> for Correction
CorrectionFrom(t) ==
    [token |-> t[1], start |-> UsizeZero, end |-> UsizeZero,
     suggestions |-> t[2]]

\* what check returns once retry_async has returned ret: res? and the
\* conversion of the token tuples
CheckReturn(ret) ==
    IF ret.ok THEN Ok([i \in DOMAIN ret.v |-> CorrectionFrom(ret.v[i])])
    ELSE ret

\* GaelspellRemote::check: ups[n] is the upstream's answer to the n-th POST
check(retries, ups) ==
    LET run == retry_async(retries,
                           [n \in DOMAIN ups |-> CheckAttempt(ups[n])])
    IN [res |-> CheckReturn(run.res), posts |-> Len(run.calls)]

\* serde Serialize of Correction
CorrectionJson(c) ==
    JObj([token |-> JStr(c.token), start |-> UsizeJson(c.start),
          end |-> UsizeJson(c.end),
          suggestions |-> JArr([i \in DOMAIN c.suggestions |->
                                   JStr(c.suggestions[i])])])

\* ------------------------------------------------------------------ tools
\* A tool instance: the implementing type and, for the remote ones, base_url.
SpellcheckLocalBackend == [kind |-> "SpellcheckLocalBackend", base_url |-> << >>]
SpellcheckRemoteBackend_new(base) ==
    [kind |-> "SpellcheckRemoteBackend", base_url |-> base]
GrammarLocalBackend == [kind |-> "GrammarLocalBackend", base_url |-> << >>]
GrammarRemoteBackend_new(base) ==
    [kind |-> "GrammarRemoteBackend", base_url |-> base]

\* ToolSpec of SpellcheckLocalBackend (tools/spellcheck/local.rs): the name
\* the unit tests of api/mcp.rs read from tools.list over build_registry()
SpellcheckLocalName == "gael.spellcheck.v1"
SpellcheckLocalDescription == "Irish spellcheck (local placeholder)"

\* ToolSpec::name
ToolName(tool) ==
    CASE tool.kind = "SpellcheckLocalBackend" -> SpellcheckLocalName
      [] tool.kind = "SpellcheckRemoteBackend" -> "gael.spellcheck.v1"
      [] tool.kind = "GrammarLocalBackend" -> "gael.grammar_check.v2"
      [] tool.kind = "GrammarRemoteBackend" -> "gael.grammar_check.v2"

\* ToolSpec::description
ToolDescription(tool) ==
    CASE tool.kind = "SpellcheckLocalBackend" -> SpellcheckLocalDescription
      [] tool.kind = "SpellcheckRemoteBackend" ->
            "Irish spellcheck (remote backend placeholder)"
      [] tool.kind = "GrammarLocalBackend" ->
            "Irish grammar (local stub backend)"
      [] tool.kind = "GrammarRemoteBackend" ->
            \* the source has the one character U+CE69 between "Gramad"
            \* and "ir"
            "Irish grammar via Gramad\\u{ce69}ir (remote backend)"

\* ToolSpec::input_schema: the same schema in all four implementations
ToolInputSchema(tool) ==
    JObj([type |-> JStr("object"),
          properties |-> JObj([text |-> JObj([type |-> JStr("string")])]),
          required |-> JArr(<<JStr("text")>>)])

\* the error of .ok_or("missing 'text'")
MissingText == <<"missing", " '", "text", "'">>

\* Tool::call of SpellcheckLocalBackend (tools/spellcheck/local.rs)
SpellcheckLocalCall(args) ==
    IF GetStr(args, "text") = None THEN Err(MissingText)
    ELSE Ok(JObj([corrections |-> JArr(<< >>)]))

\* Tool::call of SpellcheckRemoteBackend
SpellcheckRemoteCall(args) ==
    IF GetStr(args, "text") = None THEN Err(MissingText)
    ELSE Ok(JObj([corrections |-> JArr(<< >>)]))

\* Tool::call of GrammarLocalBackend
GrammarLocalCall(args) ==
    IF GetStr(args, "text") = None THEN Err(MissingText)
    ELSE Ok(JObj([issues |-> JArr(<< >>)]))

\* Tool::call of GrammarRemoteBackend as it would be without the check of
\* text: the adapter is asked to analyze whatever the arguments hold
GrammarRemoteCall_unchecked(args, ups) ==
    LET a == analyze(GramadoirRetries, ups)
    IN [res |-> IF a.res.ok
                THEN Ok(JObj([issues |->
                       JArr([i \in DOMAIN a.res.v |->
                               GrammarIssueJson(a.res.v[i])])]))
                ELSE a.res,
        posts |-> a.posts]

\* Tool::call of GrammarRemoteBackend: validates, then GramadoirRemote::new
\* (base_url).analyze(text); posts counts the POSTs sent upstream.
GrammarRemoteCall(args, ups) ==
    IF GetStr(args, "text") = None
    THEN [res |-> Err(MissingText), posts |-> 0]
    ELSE LET a == analyze(GramadoirRetries, ups)
         IN [res |-> IF a.res.ok
                     THEN Ok(JObj([issues |->
                            JArr([i \in DOMAIN a.res.v |->
                                    GrammarIssueJson(a.res.v[i])])]))
                     ELSE a.res,
             posts |-> a.posts]

\* domain::Tool::call of GrammarTool as it would be if the adapter were asked
\* first and text looked at afterwards
GrammarToolCall_unchecked(args, ups) ==
    LET a == analyze(GramadoirRetries, ups)
    IN IF GetStr(args, "text") = None
       THEN [res |-> Err(MissingText), posts |-> a.posts]
       ELSE [res |-> IF a.res.ok
                     THEN Ok(JObj([issues |->
                            JArr([i \in DOMAIN a.res.v |->
                                    GrammarIssueJson(a.res.v[i])])]))
                     ELSE a.res,
             posts |-> a.posts]

\* domain::Tool::call of GrammarTool (tools/grammar.rs): validates, then
\* self.client.analyze(text); ToolError::Message displays as its string.
GrammarToolCall(args, ups) ==
    IF GetStr(args, "text") = None
    THEN [res |-> Err(MissingText), posts |-> 0]
    ELSE LET a == analyze(GramadoirRetries, ups)
         IN [res |-> IF a.res.ok
                     THEN Ok(JObj([issues |->
                            JArr([i \in DOMAIN a.res.v |->
                                    GrammarIssueJson(a.res.v[i])])]))
                     ELSE a.res,
             posts |-> a.posts]

\* dyn Tool dispatch of call
ToolCall(tool, args, ups) ==
    CASE tool.kind = "SpellcheckLocalBackend" ->
            [res |-> SpellcheckLocalCall(args), posts |-> 0]
      [] tool.kind = "SpellcheckRemoteBackend" ->
            [res |-> SpellcheckRemoteCall(args), posts |-> 0]
      [] tool.kind = "GrammarLocalBackend" ->
            [res |-> GrammarLocalCall(args), posts |-> 0]
      [] tool.kind = "GrammarRemoteBackend" -> GrammarRemoteCall(args, ups)

\* ------------------------------------ SDK-served tools (rmcp tool routers)
\* rmcp ErrorData::invalid_params and ErrorData::internal_error
McpInvalidParams(msg) == [code |-> -32602, message |-> msg, data |-> None]
McpInternalError(msg) == [code |-> -32603, message |-> msg, data |-> None]

\* GatewaySvc::gael_grammar_check as it would be without the check of text
GatewaySvc_gael_grammar_check_unchecked(params, chk) ==
    [res |-> IF chk.ok THEN chk ELSE Err(McpInternalError(chk.e)),
     invoked |-> <<"GrammarCheck">>, posts |-> 0]

\* infra/mcp.rs GatewaySvc::gael_grammar_check; chk is what the checker's
\* check_as_json returns when it is asked
GatewaySvc_gael_grammar_check(params, chk) ==
    IF GetStr(params, "text") = None
    THEN [res |-> Err(McpInvalidParams(<<"missing required field: text">>)),
          invoked |-> << >>, posts |-> 0]
    ELSE [res |-> IF chk.ok THEN chk ELSE Err(McpInternalError(chk.e)),
          invoked |-> <<"GrammarCheck">>, posts |-> 0]

\* GrammarSvc::gael_grammar_check once analyze has returned res (or panicked)
GrammarSvc_result(res) ==
    IF IsPanic(res) THEN res
    ELSE IF res.ok
    THEN Ok(JObj([issues |->
                    JArr([i \in DOMAIN res.v |-> GrammarIssueJson(res.v[i])])]))
    ELSE Err(McpInternalError(res.e))

\* tools/grammar/tool_router.rs GrammarSvc<GramadoirRemote>::gael_grammar_check
GrammarSvc_gael_grammar_check(params, ups) ==
    IF GetStr(params, "text") = None
    THEN [res |-> Err(McpInvalidParams(<<"missing required field: text">>)),
          invoked |-> << >>, posts |-> 0]
    ELSE LET a == analyze(GramadoirRetries, ups)
         IN [res |-> GrammarSvc_result(a.res),
             invoked |-> <<"GramadoirRemote">>, posts |-> a.posts]

\* ------------------------------------------------------------- registries
\* HashMap::insert as it would be if an occupied key kept its value
MapInsert_keeps_first(m, k, v) ==
    [x \in DOMAIN m \cup {k} |-> IF x \in DOMAIN m THEN m[x] ELSE v]

\* HashMap::insert
MapInsert(m, k, v) == [x \in DOMAIN m \cup {k} |-> IF x = k THEN v ELSE m[x]]

\* std::env::var(name) is Ok exactly for a variable that is set
EnvNames == {"SPELLCHECK_BASE_URL", "GRAMADOIR_BASE_URL"}

\* a base URL reqwest can build a request for; for any other value every
\* send fails before a byte leaves the process
IsUrl(u) == u = <<"h">>

\* the answers to the POSTs of a client made with base: none leaves the
\* process unless base is a URL
BaseRuns(base, ups) ==
    IF IsUrl(base) THEN ups ELSE [n \in DOMAIN ups |-> UpBuilder]

\* the variables AppConfig::from_env_and_toml reads beside the two base URLs
ConfigNames == {"GRAMMAR_RETRIES", "SPELL_RETRIES", "TOOLING_CONFIG"}

\* u32::MAX: 4294967295
U32Max == <<4, 2, 9, 4, 9, 6, 7, 2, 9, 5>>

\* s.parse::<u32>().ok(): an optional leading '+' and then decimal digits
\* only; a number above u32::MAX is no u32. The value is held as an integer:
\* the retries the model draws are small
parse_u32(s) ==
    LET body == IF s # << >> /\ Head(s) = "+" THEN Tail(s) ELSE s
        digits == StripZeros([i \in DOMAIN body |-> DigitVal(body[i])])
    IN IF body = << >> \/ (\E i \in DOMAIN body : body[i] \notin DigitChars)
       THEN None
       ELSE IF NatLt(U32Max, digits) THEN None
            ELSE Some(NatVal(digits))

\* Option::or
OrElse(a, b) == IF a # None THEN a ELSE b

\* ToolConfigToml::default() for both tools
AppConfigTomlDefault ==
    [grammar |-> [base_url |-> None, retries |-> None],
     spell |-> [base_url |-> None, retries |-> None]]

\* infra/config.rs AppConfig::from_env_and_toml, the fields the clients
\* read. e is the environment; toml is what reading the file TOOLING_CONFIG
\* names and parsing it as AppConfigToml gives (None when either fails).
\* Each field is the variable of the environment or else the field of the
\* file; a retries variable that is no u32 counts as unset.
from_env_and_toml(e, toml) ==
    LET file_cfg == IF e["TOOLING_CONFIG"] = None \/ toml = None
                    THEN AppConfigTomlDefault ELSE toml[1]
        grammar_retries == IF e["GRAMMAR_RETRIES"] = None THEN None
                           ELSE parse_u32(e["GRAMMAR_RETRIES"][1])
        spell_retries == IF e["SPELL_RETRIES"] = None THEN None
                         ELSE parse_u32(e["SPELL_RETRIES"][1])
    IN [grammar |->
          [base_url |-> OrElse(e["GRAMADOIR_BASE_URL"],
                               file_cfg.grammar.base_url),
           retries |-> OrElse(grammar_retries, file_cfg.grammar.retries)],
        spell |->
          [base_url |-> OrElse(e["SPELLCHECK_BASE_URL"],
                               file_cfg.spell.base_url),
           retries |-> OrElse(spell_retries, file_cfg.spell.retries)]]

\* GramadoirRemote::from_config: base is "" without base_url, retries 2
\* without retries
GramadoirRemote_from_config(cfg) ==
    [base |-> IF cfg.base_url = None THEN << >> ELSE cfg.base_url[1],
     retries |-> IF cfg.retries = None THEN 2 ELSE cfg.retries[1]]

\* GaelspellRemote::from_config
GaelspellRemote_from_config(cfg) ==
    [base |-> IF cfg.base_url = None THEN << >> ELSE cfg.base_url[1],
     retries |-> IF cfg.retries = None THEN 2 ELSE cfg.retries[1]]

\* UnifiedSvc::grammar once analyze has returned res (or panicked)
UnifiedSvc_grammar_result(res) ==
    IF IsPanic(res) THEN res
    ELSE IF res.ok
    THEN Ok(JObj([issues |->
                    JArr([i \in DOMAIN res.v |-> GrammarIssueJson(res.v[i])])]))
    ELSE Err(McpInternalError(res.e))

\* tools/mcp_router.rs UnifiedSvc::grammar (SDK tool "grammar.check"); ups[n]
\* is the upstream's answer to the n-th POST that leaves the process
UnifiedSvc_grammar(params, e, toml, ups) ==
    IF GetStr(params, "text") = None
    THEN [res |-> Err(McpInvalidParams(<<"missing required field: text">>)),
          invoked |-> << >>, posts |-> 0]
    ELSE LET client == GramadoirRemote_from_config(
                           from_env_and_toml(e, toml).grammar)
             a == analyze(client.retries, BaseRuns(client.base, ups))
         IN [res |-> UnifiedSvc_grammar_result(a.res),
             invoked |-> <<"GramadoirRemote">>, posts |-> a.posts]

\* UnifiedSvc::spell once check has returned res
UnifiedSvc_spell_result(res) ==
    IF res.ok
    THEN Ok(JObj([corrections |->
                    JArr([i \in DOMAIN res.v |-> CorrectionJson(res.v[i])])]))
    ELSE Err(McpInternalError(res.e))

\* tools/mcp_router.rs UnifiedSvc::spell (SDK tool "spell.check")
UnifiedSvc_spell(params, e, toml, ups) ==
    IF GetStr(params, "text") = None
    THEN [res |-> Err(McpInvalidParams(<<"missing required field: text">>)),
          invoked |-> << >>, posts |-> 0]
    ELSE LET client == GaelspellRemote_from_config(
                           from_env_and_toml(e, toml).spell)
             c == check(client.retries, BaseRuns(client.base, ups))
         IN [res |-> UnifiedSvc_spell_result(c.res),
             invoked |-> <<"GaelspellRemote">>, posts |-> c.posts]

\* tools/registry.rs build_registry
build_registry(e) ==
    LET map0 == MapInsert(EmptyMap, "spell.check", SpellcheckLocalBackend)
        base == e["SPELLCHECK_BASE_URL"]
    IN IF base # None /\ Trim(base[1]) # << >>
       THEN MapInsert(map0, "spell.check", SpellcheckRemoteBackend_new(base[1]))
       ELSE map0

\* tools/registry2.rs build_registry_v2_from_env
build_registry_v2_from_env(e) ==
    LET base == e["GRAMADOIR_BASE_URL"]
    IN IF base # None
       THEN IF Trim(base[1]) # << >>
            THEN MapInsert(EmptyMap, "gael.grammar_check.v2",
                           GrammarRemoteBackend_new(base[1]))
            ELSE MapInsert(EmptyMap, "gael.grammar_check.v2",
                           GrammarLocalBackend)
       ELSE MapInsert(EmptyMap, "gael.grammar_check.v2", GrammarLocalBackend)

\* the iteration orders a HashMap with these keys can produce
Orders(keys) ==
    {o \in [1..Cardinality(keys) -> keys] :
        \A i, j \in DOMAIN o : i # j => o[i] # o[j]}

\* api/mcp.rs tools_list; order is the map's iteration order
tools_list(r, order) ==
    JObj([tools |-> JArr([i \in DOMAIN order |->
            JObj([name |-> JStr(ToolName(r[order[i]])),
                  description |-> JStr(ToolDescription(r[order[i]])),
                  inputSchema |-> ToolInputSchema(r[order[i]])])])])

\* tools/registry2.rs ToolRegistry::list (ToolMeta values)
ToolRegistry_list(r, order) ==
    [i \in DOMAIN order |->
        [name |-> ToolName(r[order[i]]),
         description |-> ToolDescription(r[order[i]]),
         input_schema |-> ToolInputSchema(r[order[i]])]]

\* api/mcp2.rs tools_list
tools_list2(r, order) ==
    LET metas == ToolRegistry_list(r, order)
    IN JObj([tools |-> JArr([i \in DOMAIN metas |->
            JObj([name |-> JStr(metas[i].name),
                  description |-> JStr(metas[i].description),
                  inputSchema |-> metas[i].input_schema])])])

\* call_tool as it would be if a missing name were looked up as ""
call_tool_empty_name(r, params, ups) ==
    LET n == GetStr(params, "name")
        name == IF n = None THEN "" ELSE n[1]
    IN IF name \notin DOMAIN r
       THEN [res |-> Err(<<"unknown tool", ": ", name>>),
             invoked |-> << >>, posts |-> 0]
       ELSE LET args == IF Get(params, "arguments") = None THEN JNull
                        ELSE Get(params, "arguments")[1]
                c == ToolCall(r[name], args, ups)
            IN [res |-> c.res, invoked |-> <<r[name].kind>>,
                posts |-> c.posts]

\* api/mcp.rs call_tool: the outcome, the tools whose call ran, the POSTs sent
call_tool(r, params, ups) ==
    LET name == GetStr(params, "name")
    IN IF name = None
       THEN [res |-> Err(<<"missing tool name">>), invoked |-> << >>,
             posts |-> 0]
       ELSE IF name[1] \notin DOMAIN r
            THEN [res |-> Err(<<"unknown tool", ": ", name[1]>>),
                  invoked |-> << >>, posts |-> 0]
            ELSE LET args == IF Get(params, "arguments") = None THEN JNull
                             ELSE Get(params, "arguments")[1]
                     c == ToolCall(r[name[1]], args, ups)
                 IN [res |-> c.res, invoked |-> <<r[name[1]].kind>>,
                     posts |-> c.posts]

\* tools/registry2.rs ToolRegistry::call
ToolRegistry_call(r, name, args, ups) ==
    IF name \notin DOMAIN r
    THEN [res |-> Err(<<"unknown tool", ": ", name>>), invoked |-> << >>,
          posts |-> 0]
    ELSE LET c == ToolCall(r[name], args, ups)
         IN [res |-> c.res, invoked |-> <<r[name].kind>>, posts |-> c.posts]

\* api/mcp2.rs call_tool
call_tool2(r, params, ups) ==
    LET name == GetStr(params, "name")
    IN IF name = None
       THEN [res |-> Err(<<"missing tool name">>), invoked |-> << >>,
             posts |-> 0]
       ELSE LET args == IF Get(params, "arguments") = None THEN JNull
                        ELSE Get(params, "arguments")[1]
            IN ToolRegistry_call(r, name[1], args, ups)

\* ------------------------------------------------------------ wire format
\* a JSON string built by format!: its fragments, in order
JText(frags) == [t |-> "str", f |-> frags]

\* serde Serialize of RpcErr: data is skipped when None
RpcErrJson(e) ==
    JObj([k \in {"code", "message"} \cup
                (IF e.data # None THEN {"data"} ELSE {}) |->
            CASE k = "code" -> JNum(e.code)
              [] k = "message" -> JText(e.message)
              [] k = "data" -> e.data[1]])

\* serde Serialize of RpcResp: result and error are skipped when None
RpcRespJson(r) ==
    JObj([k \in {"jsonrpc", "id"} \cup
                (IF r.result # None THEN {"result"} ELSE {}) \cup
                (IF r.error # None THEN {"error"} ELSE {}) |->
            CASE k = "jsonrpc" -> JStr(r.jsonrpc)
              [] k = "id" -> r.id
              [] k = "result" -> r.result[1]
              [] k = "error" -> RpcErrJson(r.error[1])])

\* ------------------------------------------------- dispatch (api/mcp.rs)
InitializeResult ==
    JObj([serverInfo |-> JObj([name |-> JStr("irish-mcp-gateway"),
                               version |-> JStr("0.1.0")]),
          capabilities |-> JObj(EmptyMap)])

NoCall == [invoked |-> << >>, posts |-> 0, toolres |-> None]
CallInfo(c) ==
    [invoked |-> c.invoked, posts |-> c.posts,
     toolres |-> IF c.invoked = << >> THEN None ELSE Some(c.res)]

\* api/mcp.rs http, the arm of tools.call: the match on what call_tool returned
http_call_arm(id, res) ==
    IF IsPanic(res) THEN res
    ELSE IF res.ok THEN http_json_ok(id, res.v)
    ELSE from_gateway_error(id, GatewayErrorMessage(res.e))

\* api/mcp.rs http: the body of the handler for a decoded request. Nothing
\* between tool.call(..).await and the handler's caller catches a panic: the
\* handler's outcome is then the panic, in place of a response.
http(r, q, order, ups) ==
    LET id == q.id
    IN CASE q.method = "initialize" ->
              [resp |-> http_json_ok(id, InitializeResult), call |-> NoCall]
         [] q.method = "shutdown" ->
              [resp |-> http_json_ok(id, JNull), call |-> NoCall]
         [] q.method \in {"tools.list", "tools/list"} ->
              [resp |-> http_json_ok(id, tools_list(r, order)),
               call |-> NoCall]
         [] q.method \in {"tools.call", "tools/call"} ->
              LET c == call_tool(r, q.params, ups)
              IN [resp |-> http_call_arm(id, c.res), call |-> CallInfo(c)]
         [] OTHER ->
              [resp |-> http_json_error(id, -32601,
                            <<"unknown method", ": ", q.method>>),
               call |-> NoCall]

\* api/mcp.rs handle_stdio_line, the arm of tools.call
stdio_call_arm(id, res) ==
    IF IsPanic(res) THEN res
    ELSE IF res.ok THEN rpc_ok(id, res.v)
    ELSE rpc_err(id, -32000, res.e, None)

\* api/mcp.rs handle_stdio_line (and the body of stdio_loop for one line)
handle_stdio_line(r, line, order, ups) ==
    LET d == FromStrRpcReq(line)
    IN IF d = None
       THEN [resp |-> parse_error(<<"parse error", ": ", "serde_json error">>),
             call |-> NoCall]
       ELSE LET q == d[1]
                id == q.id
            IN CASE q.method \in {"tools.list", "tools/list"} ->
                      [resp |-> rpc_ok(id, tools_list(r, order)),
                       call |-> NoCall]
                 [] q.method = "initialize" ->
                      [resp |-> rpc_ok(id, InitializeResult), call |-> NoCall]
                 [] q.method \in {"tools.call", "tools/call"} ->
                      LET c == call_tool(r, q.params, ups)
                      IN [resp |-> stdio_call_arm(id, c.res),
                          call |-> CallInfo(c)]
                 [] OTHER ->
                      [resp |-> rpc_err(id, -32601,
                                    <<"unknown method", ": ", q.method>>, None),
                       call |-> NoCall]

\* ------------------------------------------------ dispatch (api/mcp2.rs)
\* api/mcp2.rs http, the arm of tools.call
http2_call_arm(id, res) ==
    IF IsPanic(res) THEN res
    ELSE IF res.ok THEN http_json_ok(id, res.v)
    ELSE http_json_error(id, -32000, res.e)

http2(r, q, order, ups) ==
    LET id == q.id
    IN CASE q.method = "initialize" ->
              [resp |-> http_json_ok(id, InitializeResult), call |-> NoCall]
         [] q.method = "shutdown" ->
              [resp |-> http_json_ok(id, JNull), call |-> NoCall]
         [] q.method \in {"tools.list", "tools/list"} ->
              [resp |-> http_json_ok(id, tools_list2(r, order)),
               call |-> NoCall]
         [] q.method \in {"tools.call", "tools/call"} ->
              LET c == call_tool2(r, q.params, ups)
              IN [resp |-> http2_call_arm(id, c.res), call |-> CallInfo(c)]
         [] OTHER ->
              [resp |-> http_json_error(id, -32601,
                            <<"unknown method", ": ", q.method>>),
               call |-> NoCall]

\* --------------------------------------------------- dispatch (main.rs)
main_ok(id, result) ==
    [jsonrpc |-> "2.0", id |-> id, result |-> Some(result), error |-> None]

main_err(id, code, msg, data) ==
    [jsonrpc |-> "2.0", id |-> id, result |-> None,
     error |-> Some([code |-> code, message |-> msg, data |-> data])]

\* main.rs tools_list: the one built-in tool
main_tools_list ==
    JObj([tools |-> JArr(<<
        JObj([name |-> JStr("hello.echo"),
              description |-> JStr("Return a friendly greeting"),
              inputSchema |->
                JObj([type |-> JStr("object"),
                      properties |-> JObj([name |->
                                        JObj([type |-> JStr("string")])]),
                      required |-> JArr(<< >>)])])>>)])

\* main.rs call_hello_echo
call_hello_echo(params) ==
    LET a == Get(params, "arguments")
        n == IF a = None THEN None ELSE GetStr(a[1], "name")
        name == IF n = None THEN "world" ELSE n[1]
    IN Ok(JObj([message |-> JText(<<"Dia dhuit, ", name, "!">>)]))

\* main.rs mcp_http
mcp_http(q) ==
    CASE q.method \in {"tools.list", "tools/list"} ->
            [resp |-> main_ok(q.id, main_tools_list), call |-> NoCall]
      [] q.method \in {"tools.call", "tools/call"} ->
            LET n == GetStr(q.params, "name")
                tool == IF n = None THEN "" ELSE n[1]
            IN IF tool = "hello.echo"
               THEN LET c == call_hello_echo(q.params)
                    IN [resp |-> IF c.ok THEN main_ok(q.id, c.v)
                                 ELSE main_err(q.id, -32000, c.e, None),
                        call |-> [invoked |-> <<"hello.echo">>, posts |-> 0,
                                  toolres |-> Some(c)]]
               ELSE [resp |-> main_err(q.id, -32601,
                                  <<"unknown tool", ": ", tool>>, None),
                     call |-> NoCall]
      [] OTHER ->
            [resp |-> main_err(q.id, -32601,
                          <<"unknown method", ": ", q.method>>, None),
             call |-> NoCall]

\* main.rs main, stdio mode: what one non-blank line is answered with
main_stdio_line(line) ==
    LET d == FromStrRpcReq(line)
    IN IF d = None
       THEN [resp |-> [jsonrpc |-> "2.0", id |-> JNull, result |-> None,
                       error |-> Some([code |-> -32700,
                                       message |-> <<"parse error", ": ",
                                                     "serde_json error">>,
                                       data |-> None])],
             call |-> NoCall]
       ELSE LET q == d[1]
                id == q.id
            IN CASE q.method \in {"tools.list", "tools/list"} ->
                      [resp |-> main_ok(id, main_tools_list), call |-> NoCall]
                 [] q.method \in {"tools.call", "tools/call"} ->
                      LET n == GetStr(q.params, "name")
                          tool == IF n = None THEN "" ELSE n[1]
                      IN IF tool = "hello.echo"
                         THEN LET c == call_hello_echo(q.params)
                              IN [resp |-> IF c.ok THEN main_ok(id, c.v)
                                           ELSE main_err(id, -32000, c.e,
                                                         None),
                                  call |-> [invoked |-> <<"hello.echo">>,
                                            posts |-> 0,
                                            toolres |-> Some(c)]]
                         ELSE [resp |-> main_err(id, -32601,
                                            <<"unknown tool", ": ", tool>>,
                                            None),
                               call |-> NoCall]
                 [] OTHER ->
                      [resp |-> main_err(id, -32601,
                                    <<"unknown method", ": ", q.method>>,
                                    None),
                       call |-> NoCall]

\* ------------------------------------------------------------------ inputs
Ids == {JNull, JStr("a")} \cup {JNum(n) : n \in 1..MaxId}

CallMethods == {"tools.call", "tools/call"}
OtherMethods ==
    {"initialize", "shutdown", "tools.list", "tools/list", "nope",
     "tools.calls"}

ToolNames ==
    {"spell.check", "gael.spellcheck.v1", "gael.grammar_check.v2",
     "hello.echo", "does.not.exist"}

ArgumentsSet ==
    {JNull, JObj([text |-> JStr("test")]), JObj([text |-> JNum(123)])}

ParamsSet ==
    {JNull, JStr("x"), JObj(EmptyMap), JObj([name |-> JNum(7)])}
    \cup {JObj([name |-> JStr(n)]) : n \in ToolNames}
    \cup {JObj([name |-> JStr(n), arguments |-> a]) :
            n \in ToolNames, a \in ArgumentsSet}

\* params that a method which ignores them is tried with
IgnoredParams == {JNull, JObj([name |-> JStr("spell.check")])}

\* JSON texts that decode into an RpcReq
RequestJson ==
    {JObj([jsonrpc |-> JStr("2.0"), id |-> i, method |-> JStr(m)]) :
        i \in Ids, m \in CallMethods \cup OtherMethods}
    \cup {JObj([jsonrpc |-> JStr("2.0"), id |-> i, method |-> JStr(m),
                params |-> p]) : i \in Ids, m \in CallMethods, p \in ParamsSet}
    \cup {JObj([jsonrpc |-> JStr("2.0"), id |-> i, method |-> JStr(m),
                params |-> p]) :
            i \in Ids, m \in OtherMethods, p \in IgnoredParams}

\* the array form of a request: the fields in declaration order
ArrayRequestJson ==
    {JArr(<<JStr("2.0"), JNum(1), JStr("tools.list")>>),
     JArr(<<JStr("2.0"), JNum(2), JStr("tools.call"),
            JObj([name |-> JStr("spell.check"),
                  arguments |-> JObj([text |-> JStr("test")])])>>)}

\* JSON texts that do not: not an object or array, or a required member
\* absent or of the wrong type
NonRequestJson ==
    {JStr("x"), JObj(EmptyMap), JArr(<<JStr("2.0"), JNum(1)>>),
     JObj([jsonrpc |-> JStr("2.0"), method |-> JStr("tools.list")]),
     JObj([jsonrpc |-> JStr("2.0"), id |-> JNum(1), method |-> JNum(5)]),
     JObj([id |-> JNum(1), method |-> JStr("initialize")])}

\* an input line or request body: blank, not JSON at all, or a JSON text
Lines ==
    {[k |-> "blank"], [k |-> "garbage"]}
    \cup {[k |-> "json", j |-> j] :
            j \in RequestJson \cup ArrayRequestJson \cup NonRequestJson}

\* usize::MAX as the upstream writes it
UsizeMaxDigits ==
    <<"1", "8", "4", "4", "6", "7", "4", "4", "0", "7", "3", "7", "0", "9",
      "5", "5", "1", "6", "1", "5">>

\* an issue as the upstream usually sends it, and one whose fromx is
\* usize::MAX, without tox
IssueWires ==
    {[fromx |-> <<"1", "2">>, tox |-> <<"2", "1">>, errorlength |-> <<"9">>,
      msg |-> "Initial mutation missing", rule_id |-> "CLAOCHLU"],
     [fromx |-> UsizeMaxDigits, tox |-> << >>, errorlength |-> <<"1">>,
      msg |-> "Initial mutation missing", rule_id |-> "CLAOCHLU"]}

UpstreamAnswers ==
    {UpTransport, UpHttp(500, None), UpHttp(400, None),
     UpHttp(200, Some(<< >>))}
    \cup {UpHttp(200, Some(<<w>>)) : w \in IssueWires}

\* further issues the grammar upstream can send: tox before fromx; no fromx,
\* tox 0 and a length that is no number; no tox and a length
MoreIssueWires ==
    {[fromx |-> <<"1", "2">>, tox |-> <<"5">>, errorlength |-> <<"3">>,
      msg |-> "m1", rule_id |-> "r1"],
     [fromx |-> << >>, tox |-> <<"0">>, errorlength |-> <<"x">>,
      msg |-> "m2", rule_id |-> "r2"],
     [fromx |-> <<"3">>, tox |-> << >>, errorlength |-> <<"4">>,
      msg |-> "m3", rule_id |-> "r3"]}

\* a body of two issues
TwoIssues ==
    <<[fromx |-> <<"3">>, tox |-> << >>, errorlength |-> <<"4">>,
       msg |-> "m3", rule_id |-> "r3"],
      [fromx |-> <<"1", "2">>, tox |-> <<"2", "1">>, errorlength |-> <<"9">>,
       msg |-> "Initial mutation missing", rule_id |-> "CLAOCHLU"]>>

\* what the grammar upstream can do with a POST of the adapter
AdapterAnswers ==
    UpstreamAnswers
    \cup {UpHttp(200, Some(<<w>>)) : w \in MoreIssueWires}
    \cup {UpHttp(200, Some(TwoIssues))}

\* what the spellcheck upstream can do with a POST
SpellAnswers ==
    {UpTransport, UpHttp(500, None), UpHttp(400, None),
     UpHttp(200, Some(<< >>)),
     UpHttp(200, Some(<< <<"abcdef", <<"abc">>>> >>))}

\* what the upstream does with each of the POSTs one tool call can send
UpstreamRuns == [1..(GramadoirRetries + 1) -> UpstreamAnswers]

\* unset, set to the empty string, to a blank, to a URL
EnvValues == {None, Some(<< >>), Some(<<" ", "\t">>), Some(<<"h">>)}
Envs == [EnvNames -> EnvValues]

\* ------------------------------------------------------------------- state
VARIABLES
    env,        \* the process environment read at startup
    reg,        \* Registry built by build_registry
    reg2,       \* ToolRegistry built by build_registry_v2_from_env
    handler,    \* the front end serving the exchange at hand, or "none"
    input,      \* its input line or request body
    req,        \* Option<RpcReq>: what the input decoded into
    resp,       \* Option<RpcResp>: the response built for it
    out,        \* Option<J>: the serialized response
    status,     \* HTTP status of the answer (0 on stdio)
    call,       \* tools invoked, POSTs sent and the tool's own result
    advertised, \* names that tools.list over reg has returned so far
    others,     \* answers other handler tasks of the server have made since
                \* the call at hand began to wait
    r_pc,       \* retry_async: "idle", "attempt", "sleeping" or "done"; an
                \* adapter's attempt also waits at "sent" and at "body"
    r_caller,   \* who runs it: "generic" (any op), "check" (gaelspell) or
                \* one of AnalyzeCallers (gramadoir)
    r_retries,  \* the attempts argument it was called with
    attempts,   \* retry_async's local: retries left
    try_num,    \* retry_async's local: index of the current attempt
    delay_ms,   \* retry_async's local: the next backoff delay
    r_calls,    \* attempt indices op has been invoked with, in order
    r_results,  \* what each invocation of op returned, in order
    r_sleeps,   \* the delays slept, in order
    r_ret,      \* Option<Result>: what retry_async returned
    a_ret,      \* Option<Result>: what the adapter (analyze, check) returned
    posts,      \* POSTs the adapter has sent upstream
    now,        \* the system clock, in ms since the epoch
    rid,        \* Option: the request id analyze built before retry_async
    sent,       \* the headers of each POST the adapter has sent, in order
    l_prog,     \* whose stdio loop runs: "api" (stdio_loop), "main" or "none"
    stdin,      \* what is still to be read: lines and, maybe, a read error
    l_pc,       \* the loop's position: "idle", "read", "dispatch",
                \* "await_tool", "write", "done" or "panicked"
    l_line,     \* Option: the line the iteration at hand has read
    l_resp,     \* Option<RpcResp>: the response built for it
    consumed,   \* the lines read so far, in order
    l_decoded,  \* the lines given to serde_json::from_str so far, in order
    stdout,     \* the response lines written so far, in order
    l_ret,      \* Option: what the loop returned
    tasks,      \* the concurrent HTTP handler tasks: position and locals
    c_pc,       \* the main task of the HTTP server: "none", "start" (no
                \* registry yet), "local" (build_registry has inserted the
                \* local tool) or "serving"
    treg,       \* a ToolRegistry under construction: its by_name map
    g_pc,       \* its state: "none", "built" or "panicked"
    g_regs,     \* the tools inserted into it so far, in order
    g_shared,   \* whether a clone of it (of its Arc) is alive
    s_heap,     \* the session maps allocated (each behind an Arc<Mutex<..>>)
    s_handles,  \* the InMemorySessionStore values alive: the map each points to
    s_ops,      \* the set and delete calls made so far, in order
    s_got       \* Option: the latest get: its handle, key, result and when

dvars == <<overflow_checks, env, reg, reg2, handler, input, req, resp, out,
           status, call, advertised, others>>
rvars == <<r_pc, r_caller, r_retries, attempts, try_num, delay_ms, r_calls,
           r_results, r_sleeps, r_ret, a_ret, posts, now, rid, sent>>
lvars == <<l_prog, stdin, l_pc, l_line, l_resp, consumed, l_decoded, stdout,
           l_ret>>
cvars == <<tasks, c_pc>>
gvars == <<treg, g_pc, g_regs, g_shared>>
svars == <<s_heap, s_handles, s_ops, s_got>>
vars == <<dvars, rvars, lvars, cvars, gvars, svars>>

NoInput == [k |-> "blank"]

RetryIdle ==
    /\ r_pc = "idle"
    /\ r_caller = "none"
    /\ r_retries = 0
    /\ attempts = 0
    /\ try_num = 0
    /\ delay_ms = 0
    /\ r_calls = << >>
    /\ r_results = << >>
    /\ r_sleeps = << >>
    /\ r_ret = None
    /\ a_ret = None
    /\ posts = 0
    /\ now = 0
    /\ rid = None
    /\ sent = << >>

\* longest run of concurrent HTTP handler tasks
MaxTasks == 3

\* no ToolRegistry is being put together
RegIdle ==
    /\ treg = EmptyMap
    /\ g_pc = "none"
    /\ g_regs = << >>
    /\ g_shared = FALSE

\* no session store has been made
SessIdle ==
    /\ s_heap = << >>
    /\ s_handles = << >>
    /\ s_ops = << >>
    /\ s_got = None

\* no HTTP handler task has started
NoTasks ==
    [i \in 1..MaxTasks |->
        [pc |-> "free", req |-> None, id |-> None, tool |-> None,
         args |-> None, resp |-> None]]

TasksIdle ==
    /\ tasks = NoTasks
    /\ c_pc = "none"

\* no stdio loop is running
LoopIdle ==
    /\ l_prog = "none"
    /\ stdin = << >>
    /\ l_pc = "idle"
    /\ l_line = None
    /\ l_resp = None
    /\ consumed = << >>
    /\ l_decoded = << >>
    /\ stdout = << >>
    /\ l_ret = None

\* ------------------------------- retry_async, one await at a time
\* results an arbitrary fallible operation can produce
OpResults == {Ok(42), Err("E1"), Err("E2")}

InitRetry ==
    /\ RetryIdle
    /\ LoopIdle
    /\ TasksIdle
    /\ RegIdle
    /\ SessIdle
    /\ overflow_checks \in BOOLEAN
    /\ env = [n \in EnvNames |-> None]
    /\ reg = build_registry(env)
    /\ reg2 = build_registry_v2_from_env(env)
    /\ handler = "none"
    /\ input = NoInput
    /\ req = None
    /\ resp = None
    /\ out = None
    /\ status = 0
    /\ call = NoCall
    /\ advertised = {}
    /\ others = << >>

\* entry into retry_async(n, op): the locals are initialised
RetryLocals(who, n) ==
    /\ r_pc = "idle"
    /\ r_pc' = "attempt"
    /\ r_caller' = who
    /\ r_retries' = n
    /\ attempts' = n
    /\ try_num' = 0
    /\ delay_ms' = InitialDelayMs
    /\ UNCHANGED <<r_calls, r_results, r_sleeps, r_ret, a_ret, posts, now,
                   sent>>

\* GramadoirRemote::analyze called by who: req_id = generate_request_id(),
\* then retry_async(self.retries, closure)
AnalyzeEnter(who) ==
    /\ RetryLocals(who, GramadoirRetries)
    /\ rid' = Some(generate_request_id(now))

\* who can have called GramadoirRemote::analyze: a direct caller, the tool
\* call of api/mcp2.rs, the SDK-served GrammarSvc, the probe of /healthz,
\* UnifiedSvc::grammar
AnalyzeCallers == {"analyze", "http2", "sdk", "healthz", "unified_grammar"}

\* who can have called GaelspellRemote::check: a direct caller,
\* UnifiedSvc::spell
CheckCallers == {"check", "unified_spell"}

\* the caller has taken what the adapter returned: the future of the call and
\* its locals are dropped; the clock runs on
AdapterLeave ==
    /\ r_pc = "done"
    /\ r_pc' = "idle"
    /\ r_caller' = "none"
    /\ r_retries' = 0
    /\ attempts' = 0
    /\ try_num' = 0
    /\ delay_ms' = 0
    /\ r_calls' = << >>
    /\ r_results' = << >>
    /\ r_sleeps' = << >>
    /\ r_ret' = None
    /\ a_ret' = None
    /\ posts' = 0
    /\ rid' = None
    /\ sent' = << >>
    /\ UNCHANGED now

\* analyze(..).await has returned to its caller
AnalyzeLeave ==
    /\ r_caller \in AnalyzeCallers
    /\ AdapterLeave

\* check(..).await has returned to its caller
CheckLeave ==
    /\ r_caller \in CheckCallers
    /\ AdapterLeave

\* retry_async entered by a caller that is all the program does
RetryEnter(who, n) ==
    /\ RetryLocals(who, n)
    /\ UNCHANGED dvars
    /\ UNCHANGED lvars
    /\ UNCHANGED cvars
    /\ UNCHANGED gvars
    /\ UNCHANGED svars

\* retry_async called on an arbitrary operation
RetryCall ==
    /\ \E n \in 0..MaxRetries : RetryEnter("generic", n)
    /\ UNCHANGED rid

\* GramadoirRemote::analyze: req_id = generate_request_id(), then
\* retry_async(self.retries, closure)
AnalyzeCall ==
    /\ RetryEnter("analyze", GramadoirRetries)
    /\ rid' = Some(generate_request_id(now))

\* GaelspellRemote::check calls retry_async(self.retries, closure)
CheckCall ==
    /\ RetryEnter("check", GaelspellRetries)
    /\ UNCHANGED rid

\* OnResult as it would be if the sleep came before the test of attempts: a
\* failure is slept on even when it is the last one
OnResult_sleeps_before_test(r) ==
    /\ r_calls' = Append(r_calls, try_num)
    /\ r_results' = Append(r_results, r)
    /\ IF r.ok
       THEN /\ r_ret' = Some(r)
            /\ r_pc' = "done"
            /\ UNCHANGED <<attempts, r_sleeps>>
       ELSE IF attempts = 0
            THEN /\ r_ret' = Some(r)
                 /\ r_pc' = "done"
                 /\ r_sleeps' = Append(r_sleeps, delay_ms)
                 /\ UNCHANGED attempts
            ELSE /\ attempts' = attempts - 1
                 /\ r_sleeps' = Append(r_sleeps, delay_ms)
                 /\ r_pc' = "sleeping"
                 /\ UNCHANGED r_ret
    /\ UNCHANGED <<r_caller, r_retries, try_num, delay_ms, rid>>
    /\ UNCHANGED dvars
    /\ UNCHANGED lvars
    /\ UNCHANGED cvars
    /\ UNCHANGED gvars
    /\ UNCHANGED svars

\* op(try_num).await has returned r: the match in the loop body, up to the
\* return or to the start of the sleep
OnResult(r) ==
    /\ r_calls' = Append(r_calls, try_num)
    /\ r_results' = Append(r_results, r)
    /\ IF r.ok
       THEN /\ r_ret' = Some(r)
            /\ r_pc' = "done"
            /\ UNCHANGED <<attempts, r_sleeps>>
       ELSE IF Exhausted(attempts)
            THEN /\ r_ret' = Some(r)
                 /\ r_pc' = "done"
                 /\ UNCHANGED <<attempts, r_sleeps>>
            ELSE /\ attempts' = attempts - 1
                 /\ r_sleeps' = Append(r_sleeps, delay_ms)
                 /\ r_pc' = "sleeping"
                 /\ UNCHANGED r_ret
    /\ UNCHANGED <<r_caller, r_retries, try_num, delay_ms, rid>>
    /\ UNCHANGED dvars
    /\ UNCHANGED lvars
    /\ UNCHANGED cvars
    /\ UNCHANGED gvars
    /\ UNCHANGED svars

\* one invocation of an arbitrary op
Attempt ==
    /\ r_pc = "attempt"
    /\ r_caller = "generic"
    /\ \E r \in OpResults : OnResult(r)
    /\ UNCHANGED <<a_ret, posts, sent, now>>

\* whether a POST to the base URL of the adapter at hand can leave the
\* process; if not, send() fails at once. The probe of /healthz and the
\* checker of the SDK-served GrammarSvc (infra/http_app.rs
\* build_app_default) are made with GRAMADOIR_BASE_URL, the latter with ""
\* when it is unset; the clients of UnifiedSvc are made from the
\* configuration; a remote backend is registered with a URL
UrlOk ==
    CASE r_caller \in {"healthz", "sdk"} ->
            env["GRAMADOIR_BASE_URL"] # None
            /\ IsUrl(env["GRAMADOIR_BASE_URL"][1])
      [] r_caller \in {"unified_grammar", "unified_spell"} ->
            IsUrl(input.client[1].base)
      [] OTHER -> TRUE

\* what the upstream of the adapter at hand can do with a POST
AnswersFor(who) == IF who = "analyze" THEN AdapterAnswers ELSE UpstreamAnswers

\* the await at hand stays pending or moves on to pc; nothing else changes
AdapterMoves(pc) ==
    /\ r_pc' = pc
    /\ UNCHANGED <<r_caller, r_retries, attempts, try_num, delay_ms, r_calls,
                   r_results, r_sleeps, r_ret, a_ret, rid>>
    /\ UNCHANGED dvars
    /\ UNCHANGED lvars
    /\ UNCHANGED cvars
    /\ UNCHANGED gvars
    /\ UNCHANGED svars

\* the closure of analyze has returned r
AnalyzeClosureReturns(r) ==
    /\ OnResult(r)
    /\ a_ret' = IF r_pc' = "done" THEN Some(AnalyzeReturn(r_ret'[1]))
                ELSE a_ret

\* the closure of GramadoirRemote::analyze up to .send().await: the headers
\* are put on the request and the POST goes out
AnalyzeSend ==
    /\ r_pc = "attempt"
    /\ r_caller \in AnalyzeCallers
    /\ posts' = posts + 1
    /\ sent' = Append(sent, add_standard_headers(rid, now))
    /\ IF UrlOk THEN AdapterMoves("sent")
       ELSE AnalyzeClosureReturns(AnalyzeAttempt(UpBuilder))
    /\ UNCHANGED now

\* .send().await is over: the send has failed or the head of the response
\* is in; with a status that is no success the closure returns at once. The
\* clock has advanced by the time the round trip took
AnalyzeHead ==
    /\ r_pc = "sent"
    /\ r_caller \in AnalyzeCallers
    /\ now' = now + RoundTripMs
    /\ \E up \in AnswersFor(r_caller) :
        IF up.k = "http" /\ IsSuccess(up.status)
        THEN /\ AdapterMoves("body")
             /\ UNCHANGED <<posts, sent>>
        ELSE /\ AnalyzeClosureReturns(AnalyzeAttempt(up))
             /\ UNCHANGED <<posts, sent>>

\* resp.json().await is over: the body has been read and decoded, or not
AnalyzeBody ==
    /\ r_pc = "body"
    /\ r_caller \in AnalyzeCallers
    /\ \E up \in AnswersFor(r_caller) :
        /\ up.k = "http" /\ IsSuccess(up.status)
        /\ AnalyzeClosureReturns(AnalyzeAttempt(up))
    /\ UNCHANGED <<posts, sent, now>>

\* the closure of check has returned r
CheckClosureReturns(r) ==
    /\ OnResult(r)
    /\ a_ret' = IF r_pc' = "done" THEN Some(CheckReturn(r_ret'[1]))
                ELSE a_ret

\* the closure of GaelspellRemote::check up to .send().await: the headers
\* are put on the request by add_standard_headers(http.post(url), None)
CheckSend ==
    /\ r_pc = "attempt"
    /\ r_caller \in CheckCallers
    /\ posts' = posts + 1
    /\ sent' = Append(sent, add_standard_headers(None, now))
    /\ IF UrlOk THEN AdapterMoves("sent")
       ELSE CheckClosureReturns(CheckAttempt(UpBuilder))
    /\ UNCHANGED now

\* .send().await of check is over
CheckHead ==
    /\ r_pc = "sent"
    /\ r_caller \in CheckCallers
    /\ now' = now + RoundTripMs
    /\ \E up \in SpellAnswers :
        IF up.k = "http" /\ IsSuccess(up.status)
        THEN /\ AdapterMoves("body")
             /\ UNCHANGED <<posts, sent>>
        ELSE /\ CheckClosureReturns(CheckAttempt(up))
             /\ UNCHANGED <<posts, sent>>

\* resp.json().await of check is over
CheckBody ==
    /\ r_pc = "body"
    /\ r_caller \in CheckCallers
    /\ \E up \in SpellAnswers :
        /\ up.k = "http" /\ IsSuccess(up.status)
        /\ CheckClosureReturns(CheckAttempt(up))
    /\ UNCHANGED <<posts, sent, now>>

\* the backoff sleep is over: the delay doubles and the next attempt starts;
\* the clock has advanced by the time slept
Wake ==
    /\ r_pc = "sleeping"
    /\ now' = now + delay_ms
    /\ delay_ms' = NextDelay(delay_ms)
    /\ try_num' = NextTry(try_num)
    /\ r_pc' = "attempt"
    /\ UNCHANGED <<r_caller, r_retries, attempts, r_calls, r_results,
                   r_sleeps, r_ret, a_ret, posts, rid, sent>>
    /\ UNCHANGED dvars
    /\ UNCHANGED lvars
    /\ UNCHANGED cvars
    /\ UNCHANGED gvars
    /\ UNCHANGED svars

NextRetry ==
    \/ RetryCall
    \/ AnalyzeCall
    \/ CheckCall
    \/ Attempt
    \/ AnalyzeSend
    \/ AnalyzeHead
    \/ AnalyzeBody
    \/ CheckSend
    \/ CheckHead
    \/ CheckBody
    \/ Wake

SpecRetry == InitRetry /\ [][NextRetry]_vars

\* ------------------------------------------------ the front ends, by request
Init ==
    /\ RetryIdle
    /\ LoopIdle
    /\ TasksIdle
    /\ RegIdle
    /\ SessIdle
    /\ overflow_checks \in BOOLEAN
    /\ env \in Envs
    /\ reg = build_registry(env)
    /\ reg2 = build_registry_v2_from_env(env)
    /\ handler = "none"
    /\ input = NoInput
    /\ req = None
    /\ resp = None
    /\ out = None
    /\ status = 0
    /\ call = NoCall
    /\ advertised = {}
    /\ others = << >>

\* names in the tools array of a tools.list result
ListedNames(result) ==
    {result.o["tools"].a[i].o["name"].s : i \in DOMAIN result.o["tools"].a}

Advertise(q, d) ==
    IF q.method \in {"tools.list", "tools/list"} /\ d.resp.result # None
    THEN advertised \cup ListedNames(d.resp.result[1])
    ELSE advertised

\* the upstream is reached only through a remote-backed tool
RunsFor(r) ==
    IF \E k \in DOMAIN r : r[k].kind = "GrammarRemoteBackend"
    THEN UpstreamRuns
    ELSE {[n \in 1..(GramadoirRetries + 1) |-> UpTransport]}

Answer(h, body, q, d, st) ==
    /\ handler' = h
    /\ input' = body
    /\ req' = q
    /\ resp' = IF d = None \/ IsPanic(d[1].resp) THEN None
               ELSE Some(d[1].resp)
    /\ out' = IF d = None \/ IsPanic(d[1].resp) THEN None
              ELSE Some(RpcRespJson(d[1].resp))
    /\ status' = IF d # None /\ IsPanic(d[1].resp) THEN 0 ELSE st
    /\ call' = IF d = None THEN NoCall ELSE d[1].call
    /\ UNCHANGED <<overflow_checks, env, reg, reg2, others>>
    /\ UNCHANGED rvars
    /\ UNCHANGED cvars
    /\ UNCHANGED gvars
    /\ UNCHANGED svars
    /\ UNCHANGED lvars

\* axum's Json<RpcReq> extractor rejects a body that is not JSON with 400
\* and JSON that is not an RpcReq with 422; the handler does not run.
\* (serde_json's syntax errors, trailing array elements among them, are 400)
JsonRejection(body) ==
    IF body.k = "json" /\ ~TrailingElements(body.j) THEN 422 ELSE 400

\* a front end is free to take the next request
Ready == handler = "none" /\ now <= MaxClockMs

\* POST /mcp served by api/mcp.rs http
HttpRequest ==
    /\ Ready
    /\ \E body \in Lines, order \in Orders(DOMAIN reg), ups \in RunsFor(reg) :
        LET q == FromStrRpcReq(body)
        IN IF q = None
           THEN /\ Answer("http", body, None, None, JsonRejection(body))
                /\ UNCHANGED advertised
           ELSE LET d == http(reg, q[1], order, ups)
                IN /\ Answer("http", body, q, Some(d), 200)
                   /\ advertised' = Advertise(q[1], d)

\* one line given to api/mcp.rs handle_stdio_line
StdioLine ==
    /\ Ready
    /\ \E line \in Lines, order \in Orders(DOMAIN reg), ups \in RunsFor(reg) :
        LET q == FromStrRpcReq(line)
            d == handle_stdio_line(reg, line, order, ups)
        IN /\ Answer("stdio", line, q, Some(d), 0)
           /\ advertised' = IF q = None THEN advertised
                            ELSE Advertise(q[1], d)

\* an upstream that cannot be reached
NoUpstream == [n \in 1..(GramadoirRetries + 1) |-> UpTransport]

\* a handler is waiting for what it has awaited: the adapter, or the checker
\* of GatewaySvc
Pending == r_pc # "idle" \/ (handler = "sdk" /\ call.toolres = None)

\* POST /mcp served by api/mcp2.rs http, up to the answer or, when the tool
\* is the remote grammar backend and text is there, up to the entry into
\* GramadoirRemote::analyze, whose awaits are steps of their own
Http2Request ==
    /\ Ready
    /\ \E body \in Lines, order \in Orders(DOMAIN reg2) :
        LET q == FromStrRpcReq(body)
        IN IF q = None
           THEN /\ Answer("http2", body, None, None, JsonRejection(body))
                /\ UNCHANGED advertised
           ELSE LET d == http2(reg2, q[1], order, NoUpstream)
                IN IF d.call.posts = 0
                   THEN /\ Answer("http2", body, q, Some(d), 200)
                        /\ UNCHANGED advertised
                   ELSE /\ handler' = "http2"
                        /\ input' = body
                        /\ req' = q
                        /\ resp' = None
                        /\ out' = None
                        /\ status' = 0
                        /\ call' = [invoked |-> d.call.invoked, posts |-> 0,
                                    toolres |-> None]
                        /\ AnalyzeEnter("http2")
                        /\ UNCHANGED <<overflow_checks, env, reg, reg2,
                                       advertised, others>>
                        /\ UNCHANGED lvars
                        /\ UNCHANGED cvars
                        /\ UNCHANGED gvars
                        /\ UNCHANGED svars

\* Tool::call of GrammarRemoteBackend once analyze has returned res
GrammarRemoteReturn(res) ==
    IF res.ok
    THEN Ok(JObj([issues |->
                    JArr([i \in DOMAIN res.v |-> GrammarIssueJson(res.v[i])])]))
    ELSE res

\* api/mcp2.rs http after call_tool(...).await: the match on what the tool
\* returned and the answer; a panic of the adapter unwinds through the
\* handler and no answer is made
Http2Respond ==
    /\ handler = "http2"
    /\ r_caller = "http2"
    /\ r_pc = "done"
    /\ LET res == GrammarRemoteReturn(a_ret[1])
           d == http2_call_arm(req[1].id, res)
       IN /\ resp' = IF IsPanic(d) THEN None ELSE Some(d)
          /\ out' = IF IsPanic(d) THEN None ELSE Some(RpcRespJson(d))
          /\ status' = IF IsPanic(d) THEN 0 ELSE 200
          /\ call' = [invoked |-> call.invoked, posts |-> posts,
                      toolres |-> Some(res)]
    /\ AnalyzeLeave
    /\ UNCHANGED <<overflow_checks, env, reg, reg2, handler, input, req,
                   advertised, others>>
    /\ UNCHANGED lvars
    /\ UNCHANGED cvars
    /\ UNCHANGED gvars
    /\ UNCHANGED svars

\* POST /mcp served by main.rs mcp_http
MainHttpRequest ==
    /\ Ready
    /\ \E body \in Lines :
        LET q == FromStrRpcReq(body)
        IN /\ IF q = None
              THEN Answer("main_http", body, None, None, JsonRejection(body))
              ELSE Answer("main_http", body, q, Some(mcp_http(q[1])), 200)
           /\ UNCHANGED advertised

\* ---------------------------------------------------------------- /healthz
\* the fields of the report that the probe does not touch; the timestamp and
\* the crate version are opaque strings
HealthBase ==
    [timestamp |-> JStr("now"), version |-> JStr("CARGO_PKG_VERSION")]

\* health_check's match on the probe as it would be if a failed probe were
\* reported under services only
ProbeReport_never_degraded(url, res) ==
    IF IsPanic(res) THEN res
    ELSE JObj(HealthBase @@
              [status |-> JStr("healthy"),
               services |-> JObj([grammar |->
                   JObj([status |-> JStr(IF res.ok THEN "healthy"
                                         ELSE "unhealthy"),
                         url |-> JText(url)])])])

\* infra/http_app.rs health_check, the match on what client.analyze("test")
\* returned: the report. A panic of the probe unwinds through the handler
\* and no report is made.
ProbeReport(url, res) ==
    IF IsPanic(res) THEN res
    ELSE IF res.ok
    THEN JObj(HealthBase @@
              [status |-> JStr("healthy"),
               services |-> JObj([grammar |->
                   JObj([status |-> JStr("healthy"), url |-> JText(url)])])])
    ELSE JObj(HealthBase @@
              [status |-> JStr("degraded"),
               services |-> JObj([grammar |->
                   JObj([status |-> JStr("unhealthy"),
                         url |-> JText(url)])])])

\* infra/http_app.rs health_check: the report, what the probe
\* (GramadoirRemote::new(url).analyze("test")) returned, if it was made, and
\* the POSTs it sent.
health_check(e, ups) ==
    LET url == e["GRAMADOIR_BASE_URL"]
        probe == analyze(GramadoirRetries, ups)
    IN IF url = None \/ url[1] = << >>
       THEN [report |-> JObj(HealthBase @@ [status |-> JStr("healthy"),
                                            services |-> JObj(EmptyMap)]),
             probe |-> None, posts |-> 0]
       ELSE [report |-> ProbeReport(url[1], probe.res),
             probe |-> Some(probe.res), posts |-> probe.posts]

\* arguments the SDK hands to a tool: a JSON object
SdkParams ==
    {JObj(EmptyMap), JObj([text |-> JNum(123)]), JObj([text |-> JStr("test")])}

\* what a GrammarCheck implementation returns
CheckerResults == {Ok(JObj([issues |-> JArr(<< >>)])), Err(<<"boom">>)}

\* the upstream answering every POST of one call alike
SteadyRuns ==
    {[n \in 1..(GramadoirRetries + 1) |-> u] : u \in UpstreamAnswers}

\* the services whose tools the SDK routes calls to: gael.grammar_check of
\* GatewaySvc and of GrammarSvc, grammar.check and spell.check of UnifiedSvc
SdkServices ==
    {"GatewaySvc", "GrammarSvc", "UnifiedSvc::grammar", "UnifiedSvc::spell"}

\* the rest of the configuration a tool of UnifiedSvc finds when it is
\* called: the retries variables, TOOLING_CONFIG, and what reading and
\* parsing the file it names gives. Nothing set; retries 0 and a text that is
\* no number beside a file that has both tools; a number above u32::MAX and
\* "+1" beside a file that cannot be read or parsed
ConfigInputs ==
    {[vars |-> [n \in ConfigNames |-> None], toml |-> None],
     [vars |-> [n \in ConfigNames |->
                  CASE n = "GRAMMAR_RETRIES" -> Some(<<"0">>)
                    [] n = "SPELL_RETRIES" -> Some(<<"x">>)
                    [] n = "TOOLING_CONFIG" -> Some(<<"f">>)],
      toml |-> Some([grammar |-> [base_url |-> Some(<<"h">>),
                                  retries |-> Some(1)],
                     spell |-> [base_url |-> Some(<<"h">>),
                                retries |-> Some(1)]])],
     [vars |-> [n \in ConfigNames |->
                  CASE n = "GRAMMAR_RETRIES" ->
                         Some(<<"4", "2", "9", "4", "9", "6", "7", "2", "9",
                                "6">>)
                    [] n = "SPELL_RETRIES" -> Some(<<"+", "1">>)
                    [] n = "TOOLING_CONFIG" -> Some(<<"f">>)],
      toml |-> None]}

\* the environment a tool of UnifiedSvc reads: the base URLs and the rest
ConfigEnv(x) == env @@ x.vars

\* the tool function of svc on params, with a checker that fails and an
\* upstream that cannot be reached. The checker of GrammarSvc is the one
\* infra/http_app.rs build_app_default makes: GramadoirRemote::new of
\* GRAMADOIR_BASE_URL, of "" when it is unset; no POST leaves the process
\* unless that is a URL
SdkTool(svc, params, x) ==
    CASE svc = "GatewaySvc" ->
            GatewaySvc_gael_grammar_check(params, Err(<< >>))
      [] svc = "GrammarSvc" ->
            LET base == IF env["GRAMADOIR_BASE_URL"] = None THEN << >>
                        ELSE env["GRAMADOIR_BASE_URL"][1]
            IN GrammarSvc_gael_grammar_check(params,
                                             BaseRuns(base, NoUpstream))
      [] svc = "UnifiedSvc::grammar" ->
            UnifiedSvc_grammar(params, ConfigEnv(x), x.toml, NoUpstream)
      [] svc = "UnifiedSvc::spell" ->
            UnifiedSvc_spell(params, ConfigEnv(x), x.toml, NoUpstream)

\* the client a tool of UnifiedSvc makes from the configuration once text
\* is there: its base and its retries
SdkClient(svc, x) ==
    CASE svc = "UnifiedSvc::grammar" ->
            Some(GramadoirRemote_from_config(
                     from_env_and_toml(ConfigEnv(x), x.toml).grammar))
      [] svc = "UnifiedSvc::spell" ->
            Some(GaelspellRemote_from_config(
                     from_env_and_toml(ConfigEnv(x), x.toml).spell))
      [] OTHER -> None

\* the tool function of svc from the check of text to its first await:
\* GatewaySvc awaits its checker; GrammarSvc enters analyze of its checker;
\* the tools of UnifiedSvc enter analyze or check of the client they have
\* made
SdkEnter(svc, client) ==
    CASE svc = "GatewaySvc" -> UNCHANGED rvars
      [] svc = "GrammarSvc" -> AnalyzeEnter("sdk")
      [] svc = "UnifiedSvc::grammar" ->
            /\ RetryLocals("unified_grammar", client[1].retries)
            /\ rid' = Some(generate_request_id(now))
      [] svc = "UnifiedSvc::spell" ->
            /\ RetryLocals("unified_spell", client[1].retries)
            /\ UNCHANGED rid

\* a tool call routed by the SDK to a tool of one of the services, up to its
\* result or, when text is there, up to the first await
SdkToolCall ==
    /\ Ready
    /\ \E params \in SdkParams, svc \in SdkServices, x \in ConfigInputs :
        LET c == SdkTool(svc, params, x)
        IN IF c.invoked = << >>
           THEN /\ input' = [k |-> "params", j |-> params, svc |-> svc,
                             client |-> None]
                /\ call' = [invoked |-> c.invoked, posts |-> c.posts,
                            toolres |-> Some(c.res)]
                /\ UNCHANGED rvars
           ELSE /\ input' = [k |-> "params", j |-> params, svc |-> svc,
                             client |-> SdkClient(svc, x)]
                /\ call' = [invoked |-> c.invoked, posts |-> 0,
                            toolres |-> None]
                /\ SdkEnter(svc, SdkClient(svc, x))
    /\ handler' = "sdk"
    /\ UNCHANGED <<overflow_checks, env, reg, reg2, req, resp, out, status,
                   advertised, others>>
    /\ UNCHANGED lvars
    /\ UNCHANGED cvars
    /\ UNCHANGED gvars
    /\ UNCHANGED svars

\* GatewaySvc::gael_grammar_check after self.checker.check_as_json(&text)
\* .await: the checker has returned
SdkCheckerReturns ==
    /\ handler = "sdk"
    /\ input.svc = "GatewaySvc"
    /\ call.toolres = None
    /\ \E chk \in CheckerResults :
        call' = [call EXCEPT !.toolres =
                    Some(GatewaySvc_gael_grammar_check(input.j, chk).res)]
    /\ UNCHANGED <<overflow_checks, env, reg, reg2, handler, input, req, resp,
                   out, status, advertised, others>>
    /\ UNCHANGED rvars
    /\ UNCHANGED lvars
    /\ UNCHANGED cvars
    /\ UNCHANGED gvars
    /\ UNCHANGED svars

\* GrammarSvc::gael_grammar_check after self.checker.analyze(&text).await
SdkAnalyzeReturns ==
    /\ handler = "sdk"
    /\ r_caller = "sdk"
    /\ r_pc = "done"
    /\ call' = [invoked |-> call.invoked, posts |-> posts,
                toolres |-> Some(GrammarSvc_result(a_ret[1]))]
    /\ AnalyzeLeave
    /\ UNCHANGED <<overflow_checks, env, reg, reg2, handler, input, req, resp,
                   out, status, advertised, others>>
    /\ UNCHANGED lvars
    /\ UNCHANGED cvars
    /\ UNCHANGED gvars
    /\ UNCHANGED svars

\* UnifiedSvc::grammar after client.analyze(&text).await
UnifiedGrammarReturns ==
    /\ handler = "sdk"
    /\ r_caller = "unified_grammar"
    /\ r_pc = "done"
    /\ call' = [invoked |-> call.invoked, posts |-> posts,
                toolres |-> Some(UnifiedSvc_grammar_result(a_ret[1]))]
    /\ AnalyzeLeave
    /\ UNCHANGED <<overflow_checks, env, reg, reg2, handler, input, req, resp,
                   out, status, advertised, others>>
    /\ UNCHANGED lvars
    /\ UNCHANGED cvars
    /\ UNCHANGED gvars
    /\ UNCHANGED svars

\* UnifiedSvc::spell after client.check(&text).await
UnifiedSpellReturns ==
    /\ handler = "sdk"
    /\ r_caller = "unified_spell"
    /\ r_pc = "done"
    /\ call' = [invoked |-> call.invoked, posts |-> posts,
                toolres |-> Some(UnifiedSvc_spell_result(a_ret[1]))]
    /\ CheckLeave
    /\ UNCHANGED <<overflow_checks, env, reg, reg2, handler, input, req, resp,
                   out, status, advertised, others>>
    /\ UNCHANGED lvars
    /\ UNCHANGED cvars
    /\ UNCHANGED gvars
    /\ UNCHANGED svars

\* the answer to GET /healthz: Json(status) with 200, or none after a panic
HealthzAnswer(h) ==
    /\ out' = IF IsPanic(h.report) THEN None ELSE Some(h.report)
    /\ status' = IF IsPanic(h.report) THEN 0 ELSE 200
    /\ call' = [invoked |-> << >>, posts |-> h.posts, toolres |-> h.probe]

\* GET /healthz, served by health_check, up to the report or, when a base
\* URL is set, up to the entry into the probe client.analyze("test")
Healthz ==
    /\ Ready
    /\ LET h == health_check(env, NoUpstream)
       IN IF h.probe = None
          THEN /\ HealthzAnswer(h)
               /\ UNCHANGED rvars
          ELSE /\ out' = None
               /\ status' = 0
               /\ call' = NoCall
               /\ AnalyzeEnter("healthz")
    /\ handler' = "healthz"
    /\ input' = [k |-> "get", path |-> "/healthz"]
    /\ UNCHANGED <<overflow_checks, env, reg, reg2, req, resp, advertised, others>>
    /\ UNCHANGED lvars
    /\ UNCHANGED cvars
    /\ UNCHANGED gvars
    /\ UNCHANGED svars

\* health_check after client.analyze("test").await: the report
HealthzReport ==
    /\ handler = "healthz"
    /\ r_caller = "healthz"
    /\ r_pc = "done"
    /\ HealthzAnswer([report |-> ProbeReport(env["GRAMADOIR_BASE_URL"][1],
                                             a_ret[1]),
                      probe |-> a_ret, posts |-> posts])
    /\ AnalyzeLeave
    /\ UNCHANGED <<overflow_checks, env, reg, reg2, handler, input, req, resp,
                   advertised, others>>
    /\ UNCHANGED lvars
    /\ UNCHANGED cvars
    /\ UNCHANGED gvars
    /\ UNCHANGED svars

\* request bodies other clients send while a call waits
OtherBodies == {[k |-> "json", j |-> j] : j \in ArrayRequestJson}

\* a handler of the HTTP server waits: at an await of the adapter (the POST
\* is out, the body is being read, or the backoff sleep runs) or, in
\* GatewaySvc, for the checker
Waiting ==
    \/ r_pc \in {"sent", "body", "sleeping"}
    \/ handler = "sdk" /\ r_pc = "idle" /\ call.toolres = None

\* while a handler of the HTTP server waits, the runtime serves another
\* request on a task of its own: a POST to the route of api/mcp2.rs http
\* beside the call it serves, or to the route of api/mcp.rs http beside
\* /healthz and beside the SDK service at /mcp
\* (build_app_with_deprecated_api). The request is one that is answered
\* without waiting itself.
ServeOther ==
    /\ handler \in {"http2", "healthz", "sdk"}
    /\ Waiting
    /\ Len(others) < MaxOthers
    /\ \E body \in OtherBodies :
        LET q == FromStrRpcReq(body)[1]
        IN IF handler = "http2"
           THEN \E order \in Orders(DOMAIN reg2) :
                  LET d == http2(reg2, q, order, NoUpstream)
                  IN /\ d.call.posts = 0
                     /\ others' = Append(others, RpcRespJson(d.resp))
                     /\ UNCHANGED advertised
           ELSE \E order \in Orders(DOMAIN reg), ups \in RunsFor(reg) :
                  LET d == http(reg, q, order, ups)
                  IN /\ others' = Append(others, RpcRespJson(d.resp))
                     /\ advertised' = Advertise(q, d)
    /\ UNCHANGED <<overflow_checks, env, reg, reg2, handler, input, req, resp,
                   out, status, call>>
    /\ UNCHANGED rvars
    /\ UNCHANGED lvars
    /\ UNCHANGED cvars
    /\ UNCHANGED gvars
    /\ UNCHANGED svars

\* the answer has gone out; the front end is ready for the next input
Deliver ==
    /\ handler # "none"
    /\ ~Pending
    /\ handler' = "none"
    /\ input' = NoInput
    /\ req' = None
    /\ resp' = None
    /\ out' = None
    /\ status' = 0
    /\ call' = NoCall
    /\ others' = << >>
    /\ UNCHANGED <<overflow_checks, env, reg, reg2, advertised>>
    /\ UNCHANGED rvars
    /\ UNCHANGED cvars
    /\ UNCHANGED gvars
    /\ UNCHANGED svars
    /\ UNCHANGED lvars

Next ==
    \/ HttpRequest
    \/ StdioLine
    \/ Http2Request
    \/ MainHttpRequest
    \/ Http2Respond
    \/ SdkToolCall
    \/ SdkCheckerReturns
    \/ SdkAnalyzeReturns
    \/ Healthz
    \/ HealthzReport
    \/ AnalyzeSend
    \/ AnalyzeHead
    \/ UnifiedGrammarReturns
    \/ UnifiedSpellReturns
    \/ AnalyzeBody
    \/ CheckSend
    \/ CheckHead
    \/ CheckBody
    \/ Wake
    \/ ServeOther
    \/ Deliver

Spec == Init /\ [][Next]_vars

\* ------------------------------------------------------ dispatch claims
\* a decoded request has been dispatched and its answer is at hand
Dispatched == handler # "none" /\ req # None

\* the methods the dispatcher specification names, with their aliases
RecognisedMethods ==
    {"initialize", "shutdown", "tools.list", "tools/list", "tools.call",
     "tools/call"}

\* the name -> tool table the front end at hand looks tool names up in
Keys ==
    CASE handler \in {"http", "stdio"} -> DOMAIN reg
      [] handler = "http2" -> DOMAIN reg2
      [] handler = "main_http" -> {"hello.echo"}
      [] OTHER -> {}

IsCall == Dispatched /\ req[1].method \in CallMethods
IsList == Dispatched /\ req[1].method \in {"tools.list", "tools/list"}
CallName == GetStr(req[1].params, "name")
CallArgs ==
    IF Get(req[1].params, "arguments") = None THEN JNull
    ELSE Get(req[1].params, "arguments")[1]

\* the dispatcher of api/mcp.rs: its HTTP handler and its stdio line handler
DispatcherHandlers == {"http", "stdio"}

\* C1: every decoded request gets an RpcResp from the dispatcher (HTTP
\* handler and stdio line handler), and it carries exactly one of result and
\* error, in the struct and in its serialized form.
C1_ExactlyOneOfResultOrError ==
    (Dispatched /\ handler \in DispatcherHandlers) =>
        /\ resp # None
        /\ (resp[1].result = None) # (resp[1].error = None)
        /\ out # None
        /\ ("result" \in DOMAIN out[1].o) # ("error" \in DOMAIN out[1].o)

\* C1 witness: a tools.call whose params is not an object has been answered
\* with an error and no result.
C1_Witness_NonObjectParams ==
    /\ Dispatched
    /\ req[1].method = "tools.call"
    /\ req[1].params = JStr("x")
    /\ resp[1].error # None
    /\ resp[1].result = None

\* C2: the response of the HTTP handler and of the stdio line handler to a
\* decoded request carries the request's id unchanged.
C2_IdEchoed ==
    (Dispatched /\ handler \in DispatcherHandlers) =>
        /\ resp # None
        /\ resp[1].id = req[1].id
        /\ out[1].o["id"] = req[1].id

\* C2 witness: a failed tools.call with a string id has been answered.
C2_Witness_FailedCallStringId ==
    /\ IsCall
    /\ req[1].id = JStr("a")
    /\ resp[1].error # None
    /\ resp[1].error[1].code = -32000

\* C3: an input that does not decode is answered, where an RpcResp is built
\* for it (the stdio line handler), with a null id, code -32700 and no result.
C3_ParseErrorShape ==
    (handler # "none" /\ req = None) =>
        /\ handler = "stdio" => resp # None
        /\ resp # None =>
            /\ resp[1].id = JNull
            /\ resp[1].result = None
            /\ resp[1].error # None
            /\ resp[1].error[1].code = -32700

\* C3 witness: the stdio line handler has answered a line that is JSON but
\* not a request.
C3_Witness_UndecodableLine ==
    /\ handler = "stdio"
    /\ input.k = "json"
    /\ req = None
    /\ resp # None

\* C4: a decoded request with an unrecognised method is answered with error
\* -32601 whose message contains the method name, and no tool is invoked.
C4_UnknownMethod ==
    (Dispatched /\ req[1].method \notin RecognisedMethods) =>
        /\ resp[1].result = None
        /\ resp[1].error # None
        /\ resp[1].error[1].code = -32601
        /\ Contains(resp[1].error[1].message, req[1].method)
        /\ call.invoked = << >>

\* C4 witness: method "tools.calls" with tool-call params has been answered.
C4_Witness_NearMissMethod ==
    /\ Dispatched
    /\ req[1].method = "tools.calls"
    /\ GetStr(req[1].params, "name") = Some("spell.check")
    /\ resp[1].error # None

\* C5 (as claimed): a tools.call naming a key of the registry with valid
\* arguments gets a result and no error; one naming anything else gets error
\* -32000 containing "unknown tool" and invokes no tool.  Stated for the
\* front ends of api/mcp.rs and main.rs.
C5_Claimed_KnownAndUnknownTool ==
    (IsCall /\ handler \in {"http", "stdio", "main_http"}
            /\ CallName # None) =>
        /\ (CallName[1] \in Keys
                /\ (handler = "main_http" \/ GetStr(CallArgs, "text") # None))
            => (resp[1].result # None /\ resp[1].error = None)
        /\ CallName[1] \notin Keys =>
            /\ resp[1].error # None
            /\ resp[1].error[1].code = -32000
            /\ Contains(resp[1].error[1].message, "unknown tool")
            /\ call.invoked = << >>

\* C6: when the invoked tool returns a failure, the response is error -32000
\* with the tool's error string unchanged; when it returns a value, that
\* value is the response's result.
C6_ToolOutcomeWrapped ==
    (Dispatched /\ call.toolres # None /\ ~IsPanic(call.toolres[1])) =>
        IF call.toolres[1].ok
        THEN /\ resp[1].result = Some(call.toolres[1].v)
             /\ resp[1].error = None
        ELSE /\ resp[1].result = None
             /\ resp[1].error # None
             /\ resp[1].error[1].code = -32000
             /\ resp[1].error[1].message = call.toolres[1].e

\* C6 witness: a tool invoked through api/mcp.rs http has returned a failure.
C6_Witness_ToolFailed ==
    /\ handler = "http"
    /\ call.toolres # None
    /\ ~call.toolres[1].ok

\* C7 (as claimed): the names tools.list returns are exactly the key set of
\* the registry that tools.call looks names up in.
C7_Claimed_ListedNamesAreKeys ==
    (IsList /\ handler \in {"http", "stdio", "http2"}) =>
        /\ resp[1].result # None
        /\ ListedNames(resp[1].result[1]) = Keys

\* C8 (as claimed): over the registry of build_registry, a name that
\* tools.list has advertised, called with a string text, yields a result.
C8_Claimed_ListThenCall ==
    (IsCall /\ handler \in {"http", "stdio"} /\ CallName # None) =>
        ((CallName[1] \in advertised /\ GetStr(CallArgs, "text") # None)
            => (resp[1].result # None /\ resp[1].error = None))

\* --------------------------------------------------- tool argument claims
\* the tools that take a text argument
TextTools ==
    {"SpellcheckLocalBackend", "SpellcheckRemoteBackend",
     "GrammarLocalBackend", "GrammarRemoteBackend"}

\* GrammarTool called directly without a string text, whatever the upstream
\* would answer
GrammarToolMissingText ==
    \A a \in ArgumentsSet \cup {JObj(EmptyMap)} :
        GetStr(a, "text") = None =>
            \A ups \in {[n \in 1..(GramadoirRetries + 1) |-> u] :
                            u \in UpstreamAnswers} :
                /\ ~GrammarToolCall(a, ups).res.ok
                /\ Contains(GrammarToolCall(a, ups).res.e, "missing")
                /\ Contains(GrammarToolCall(a, ups).res.e, "text")
                /\ GrammarToolCall(a, ups).posts = 0

\* C12: when tools.call reaches a text-taking tool and the arguments are
\* absent, have no text member, or have a text that is not a string, the
\* response is error -32000 whose message contains "missing" and the field
\* name text, there is no result, and nothing is sent upstream; GrammarTool
\* called directly with such arguments returns the same error.
C12_MissingTextIsToolError ==
    /\ (IsCall /\ call.invoked # << >> /\ call.invoked[1] \in TextTools
            /\ GetStr(CallArgs, "text") = None) =>
        /\ resp # None
        /\ resp[1].result = None
        /\ resp[1].error # None
        /\ resp[1].error[1].code = -32000
        /\ Contains(resp[1].error[1].message, "missing")
        /\ Contains(resp[1].error[1].message, "text")
        /\ call.posts = 0
    /\ GrammarToolMissingText

\* C12 witness: the remote grammar tool was called over api/mcp2.rs with a
\* numeric text and the call was answered with error -32000.
C12_Witness_NumericText ==
    /\ IsCall
    /\ handler = "http2"
    /\ call.invoked = <<"GrammarRemoteBackend">>
    /\ CallArgs = JObj([text |-> JNum(123)])
    /\ resp[1].error # None
    /\ resp[1].error[1].code = -32000

\* ------------------------------------------------- front-end equivalence
\* C13 as claimed: the response line the stdio handler produces for a
\* decodable request is the response body the HTTP handler of api/mcp.rs
\* produces for the same request over the same registry.
C13_Claimed_StdioAsHttp ==
    (Dispatched /\ handler = "stdio") =>
        \E order \in Orders(DOMAIN reg), ups \in RunsFor(reg) :
            out = Some(RpcRespJson(http(reg, req[1], order, ups).resp))

\* C14 as claimed: a shutdown request is answered with a null result and no
\* error by the HTTP handlers and by the stdio handler alike.
C14_Claimed_ShutdownNullResult ==
    (Dispatched /\ handler \in {"http", "http2", "stdio"}
            /\ req[1].method = "shutdown") =>
        /\ resp # None
        /\ resp[1].result = Some(JNull)
        /\ resp[1].error = None

\* ---------------------------------------------------------- HTTP status
HttpHandlers == {"http", "http2", "main_http"}

\* C20 as claimed: an HTTP body that decodes into a request is answered with
\* status 200 and an RpcResp, whatever the RPC outcome; a body that does not
\* decode is answered with status 400, no RpcResp is built for it and no
\* tool is invoked.
C20_Claimed_HttpStatus ==
    handler \in HttpHandlers =>
        IF req # None
        THEN status = 200 /\ resp # None
        ELSE status = 400 /\ resp = None /\ call = NoCall

\* ------------------------------------------------ registry content claims
\* a base URL is configured: the variable is set and not blank
Configured(name) == env[name] # None /\ Trim(env[name][1]) # << >>

GrammarKinds == {"GrammarLocalBackend", "GrammarRemoteBackend"}
SpellcheckKinds == {"SpellcheckLocalBackend", "SpellcheckRemoteBackend"}

\* the registry holds one tool of these kinds, the remote one exactly when
\* the capability's base URL is configured
OneToolOf(r, kinds, remote, url) ==
    /\ Cardinality({k \in DOMAIN r : r[k].kind \in kinds}) = 1
    /\ \A k \in DOMAIN r :
        r[k].kind \in kinds => (r[k].kind = remote <=> Configured(url))

\* C23 as claimed: each registry built from the configuration holds, for
\* grammar and for spellcheck, exactly one tool: the remote-backed one if
\* the base URL of the capability is configured, else the local stub.
C23_Claimed_OneToolPerCapability ==
    \A r \in {reg, reg2} :
        /\ OneToolOf(r, GrammarKinds, "GrammarRemoteBackend",
                     "GRAMADOIR_BASE_URL")
        /\ OneToolOf(r, SpellcheckKinds, "SpellcheckRemoteBackend",
                     "SPELLCHECK_BASE_URL")

\* C24 as claimed: the registry of build_registry_v2_from_env has the key
\* "gael.spellcheck.v1", and a tools.call over api/mcp2.rs naming it with a
\* string text gets a result whose corrections is an array.
C24_Claimed_V2HasSpellcheck ==
    /\ "gael.spellcheck.v1" \in DOMAIN reg2
    /\ (IsCall /\ handler = "http2" /\ CallName = Some("gael.spellcheck.v1")
            /\ GetStr(CallArgs, "text") # None) =>
        /\ resp[1].result # None
        /\ Get(resp[1].result[1], "corrections") # None
        /\ Get(resp[1].result[1], "corrections")[1].t = "arr"

\* ------------------------------------------------------- absent id claim
\* the input is a JSON object with a version tag and a method but no id
IsNotification(line) ==
    /\ line.k = "json"
    /\ GetStr(line.j, "jsonrpc") # None
    /\ GetStr(line.j, "method") # None
    /\ Get(line.j, "id") = None

\* C25 as claimed: a message with a valid method and no id is decoded into
\* a request and dispatched by its method; it is not answered as a parse
\* failure.
C25_Claimed_AbsentIdDispatched ==
    (handler # "none" /\ IsNotification(input)) =>
        /\ req # None
        /\ resp # None => (resp[1].error = None
                            \/ resp[1].error[1].code # -32700)

\* ------------------------------------------------------- SDK tool claims
\* C29: gael_grammar_check given arguments whose text is missing or not a
\* string fails with code -32602 and a message containing "missing required
\* field: text", and the grammar checker is not invoked (nothing is sent
\* upstream, and the call does not wait for anything).
C29_SdkMissingTextInvalidParams ==
    (handler = "sdk" /\ GetStr(input.j, "text") = None) =>
        /\ call.toolres # None
        /\ ~call.toolres[1].ok
        /\ call.toolres[1].e.code = -32602
        /\ Contains(call.toolres[1].e.message, "missing required field: text")
        /\ call.invoked = << >>
        /\ call.posts = 0

\* C29 witness: GatewaySvc's tool was called with a numeric text and has
\* returned an error.
C29_Witness_NumericTextSdk ==
    /\ handler = "sdk"
    /\ input.svc = "GatewaySvc"
    /\ input.j = JObj([text |-> JNum(123)])
    /\ ~call.toolres[1].ok

\* ------------------------------------------------------- /healthz claims
\* the grammar base URL is set and not the empty string
GrammarUrlSet ==
    env["GRAMADOIR_BASE_URL"] # None /\ env["GRAMADOIR_BASE_URL"][1] # << >>

\* the probe of a /healthz answer at hand was made and failed
ProbeFailed == call.toolres # None /\ ~call.toolres[1].ok

\* C30: the overall status of a /healthz report is "degraded" exactly when
\* the grammar base URL is configured (non-empty) and the probe, retries
\* included, fails, and "healthy" otherwise; services.grammar is present
\* exactly when the URL is configured, and its status is "healthy" or
\* "unhealthy" as the probe succeeded or failed. (A report is made unless
\* the probe panicked.)
C30_HealthzStatus ==
    (handler = "healthz" /\ out # None) =>
        LET rep == out[1].o
            svc == rep["services"].o
        IN /\ rep["status"] =
                  JStr(IF GrammarUrlSet /\ ProbeFailed THEN "degraded"
                       ELSE "healthy")
           /\ ("grammar" \in DOMAIN svc) <=> GrammarUrlSet
           /\ GrammarUrlSet =>
                 /\ call.toolres # None
                 /\ svc["grammar"].o["status"] =
                        JStr(IF ProbeFailed THEN "unhealthy" ELSE "healthy")

\* C30 witness: a probe that failed on every one of its three POSTs is
\* reported as unhealthy in a degraded report.
C30_Witness_DegradedAfterRetries ==
    /\ handler = "healthz"
    /\ GrammarUrlSet
    /\ ProbeFailed
    /\ call.posts = GramadoirRetries + 1
    /\ out[1].o["status"] = JStr("degraded")

\* --------------------------------------------------- tool name claims
\* C28: a tools.call served by api/mcp.rs (or api/mcp2.rs) whose params has
\* no name, or a name that is not a string, absent params included, is
\* answered with error -32000 and the message "missing tool name", and no
\* tool is invoked.
C28_MissingToolName ==
    (IsCall /\ handler \in {"http", "stdio", "http2"} /\ CallName = None) =>
        /\ resp[1].result = None
        /\ resp[1].error # None
        /\ resp[1].error[1].code = -32000
        /\ resp[1].error[1].message = <<"missing tool name">>
        /\ call.invoked = << >>
        /\ call.posts = 0

\* C28 witness: a tools.call whose name is a number has been answered by
\* the stdio handler with an error.
C28_Witness_NumericName ==
    /\ IsCall
    /\ handler = "stdio"
    /\ req[1].params = JObj([name |-> JNum(7)])
    /\ resp[1].error # None

\* ---------------------------------------------------------- panic claims
\* the call of a tool has panicked while the request at hand was served
ToolPanicked == call.toolres # None /\ IsPanic(call.toolres[1])

\* C27 (as claimed): a panic inside a tool's call is caught at the request
\* boundary and converted to an application error: the request is answered
\* with error code -32000.
C27_Claimed_PanicCaught ==
    (handler \in {"http", "stdio", "http2"} /\ ToolPanicked) =>
        /\ resp # None
        /\ resp[1].error # None
        /\ resp[1].error[1].code = -32000

\* ----------------------------------------------------------- retry claims
AllFailed ==
    r_results # << >> /\ \A i \in DOMAIN r_results : ~r_results[i].ok

\* the step-wise retry_async returns what the function retry_async computes
\* from the same results of op
RetryStepAgreesWithFunction ==
    r_pc = "done" =>
        LET run == retry_async(r_retries, r_results)
        IN /\ r_ret = Some(run.res)
           /\ r_calls = run.calls
           /\ r_sleeps = run.sleeps

\* the POSTs of the adapter that are out and not yet answered in full
PostsInFlight == IF r_pc \in {"sent", "body"} THEN 1 ELSE 0

\* C9: retry_async(N, op) never invokes op more than N+1 times; when every
\* invocation fails it invokes op exactly N+1 times and then returns the
\* error of the last invocation unchanged; one call of the adapter sends at
\* most 3 POSTs and hands that error on.
C9_RetryBound ==
    /\ Len(r_calls) <= r_retries + 1
    /\ Len(r_calls) + PostsInFlight <= r_retries + 1
    /\ r_caller = "analyze" =>
        (posts = Len(r_calls) + PostsInFlight /\ posts <= 3)
    /\ (AllFailed /\ Len(r_calls) = r_retries + 1) => r_pc = "done"
    /\ (AllFailed /\ r_pc = "done") =>
        /\ Len(r_calls) = r_retries + 1
        /\ r_ret = Some(r_results[Len(r_results)])
        /\ r_caller = "analyze" => a_ret = r_ret

\* C9 witness: with 2 retries op failed three times, the last time with an
\* error other than the one before, and retry_async has returned.
C9_Witness_ThreeFailures ==
    /\ r_pc = "done"
    /\ r_caller = "generic"
    /\ r_retries = 2
    /\ AllFailed
    /\ Len(r_results) = 3
    /\ r_results[3] # r_results[2]

\* C10 as claimed: op is invoked with the attempt indices 0, 1, 2, ... in
\* order; a success is the last invocation, happens within the retry bound,
\* and its value is what retry_async returns; the adapter then returns the
\* payload of that answer (converted) to its caller, not an error.  The
\* retry_async part holds; the adapter part fails where the conversion of
\* the payload overflows (C27, C35): with overflow checks the caller gets a
\* panic and no payload.
C10_Claimed_RetryThenSucceed ==
    /\ \A i \in DOMAIN r_calls : r_calls[i] = i - 1
    /\ \A i \in DOMAIN r_results :
        r_results[i].ok =>
            /\ i = Len(r_results)
            /\ i - 1 <= r_retries
            /\ r_pc = "done"
            /\ r_ret = Some(r_results[i])
            /\ r_caller = "analyze" =>
                /\ a_ret # None
                /\ a_ret[1].ok
                /\ Len(a_ret[1].v) = Len(r_results[i].v)
                /\ \A j \in DOMAIN a_ret[1].v :
                    a_ret[1].v[j].code = r_results[i].v[j].rule_id

\* an attempt of the adapter was answered with a client error (4xx)
IsClientError(r) == ~r.ok /\ Contains(r.e, "upstream status")

\* C11 as claimed: a 4xx answer is the adapter's last attempt, analyze
\* returns its error, whose text contains "upstream status"; no attempt
\* follows a 4xx answer.
C11_Claimed_ClientErrorTerminal ==
    r_caller = "analyze" =>
        \A i \in DOMAIN r_results :
            IsClientError(r_results[i]) =>
                /\ i = Len(r_results)
                /\ r_pc = "done"
                /\ a_ret = Some(r_results[i])

\* ------------------------------------------- validation before the remote
\* GrammarTool and GrammarRemoteBackend called directly, whatever the
\* upstream would answer: no POST without a string text, one at least with it
RemoteToolsValidateFirst ==
    \A a \in ArgumentsSet \cup {JObj(EmptyMap)}, ups \in SteadyRuns :
        IF GetStr(a, "text") = None
        THEN /\ GrammarToolCall(a, ups) = [res |-> Err(MissingText), posts |-> 0]
             /\ GrammarRemoteCall(a, ups) =
                    [res |-> Err(MissingText), posts |-> 0]
        ELSE /\ GrammarToolCall(a, ups).posts >= 1
             /\ GrammarRemoteCall(a, ups).posts >= 1

\* C34: a remote-backed tool looks at text before it touches the upstream:
\* with text missing or not a string, GrammarTool and GrammarRemoteBackend
\* fail with the missing-text error and send no POST at all, whatever the
\* upstream would have answered; with a string text they do go upstream.
\* A handler is inside the adapter only with a string text. (The tools
\* called directly are looked at between exchanges, in either build profile.)
C34_ValidateBeforeRemote ==
    /\ handler = "none" => RemoteToolsValidateFirst
    /\ (IsCall /\ call.invoked = <<"GrammarRemoteBackend">>
            /\ GetStr(CallArgs, "text") = None) =>
        /\ call.toolres = Some(Err(MissingText))
        /\ call.posts = 0
    /\ (handler = "http2" /\ r_pc # "idle") =>
        (GetStr(CallArgs, "text") # None /\ rid # None)
    /\ (handler = "sdk" /\ r_pc # "idle") => GetStr(input.j, "text") # None

\* C34 witness: the remote grammar tool was invoked without arguments while
\* its upstream was configured; it failed and nothing was posted.
C34_Witness_NoArgumentsNoPost ==
    /\ IsCall
    /\ call.invoked = <<"GrammarRemoteBackend">>
    /\ CallArgs = JNull
    /\ call.toolres = Some(Err(MissingText))
    /\ call.posts = 0

\* ------------------------------------------------- issue normalisation
\* analyze has returned after the upstream answered with a list of issues
AnalyzeGotIssues ==
    /\ r_caller = "analyze"
    /\ r_pc = "done"
    /\ r_ret[1].ok

\* issue g is wire issue w normalised as claimed: start is the number in
\* fromx or 0, end is tox when positive and start plus the number in
\* errorlength otherwise (a sum past usize::MAX is no usize value)
NormalisedAsClaimed(w, g) ==
    /\ g.code = w.rule_id
    /\ g.message = w.msg
    /\ g.start = parse_usize(w.fromx)
    /\ IF UsizeGt(parse_usize(w.tox), UsizeZero)
       THEN g.end = parse_usize(w.tox)
       ELSE /\ ~UsizeAddOverflows(parse_usize(w.fromx),
                                  parse_usize(w.errorlength))
            /\ g.end = NatAdd(parse_usize(w.fromx),
                              parse_usize(w.errorlength))

\* C35 (as claimed): analyze returns as many issues as the upstream sent, in
\* the same order, each normalised from its wire issue: code from ruleId,
\* message from msg, start from fromx, end from tox or start + errorlength.
C35_Claimed_IssueMapping ==
    AnalyzeGotIssues =>
        /\ ~IsPanic(a_ret[1])
        /\ a_ret[1].ok
        /\ Len(a_ret[1].v) = Len(r_ret[1].v)
        /\ \A i \in DOMAIN a_ret[1].v :
            NormalisedAsClaimed(r_ret[1].v[i], a_ret[1].v[i])

\* C36 (as claimed): every issue analyze returns has start <= end.
C36_Claimed_StartBeforeEnd ==
    (AnalyzeGotIssues /\ ~IsPanic(a_ret[1])) =>
        \A i \in DOMAIN a_ret[1].v :
            ~UsizeGt(a_ret[1].v[i].start, a_ret[1].v[i].end)

\* ---------------------------------------------------------- header claims
\* C33 (as claimed): every POST of one adapter call, the first and each
\* retry, carries the same x-request-id, and the fixed user-agent.
C33_Claimed_OneCorrelationId ==
    r_caller \in {"analyze", "check"} =>
        \A i, j \in DOMAIN sent :
            /\ sent[i].x_request_id = sent[j].x_request_id
            /\ sent[i].user_agent = UserAgent

\* ---------------------------------------------------------- backoff claims
RECURSIVE Pow2(_)
Pow2(k) == IF k = 0 THEN 1 ELSE 2 * Pow2(k - 1)

\* min(50 * 2^k, 1000)
BackoffMs(k) == IF 50 * Pow2(k) <= 1000 THEN 50 * Pow2(k) ELSE 1000

\* C31: the delay slept before the k-th retry (k = 0, 1, 2, ...) is
\* min(50 * 2^k, 1000) ms, a function of k alone, and lies within
\* [50, 1000]; the delay the loop holds for its next sleep is that of the
\* retry it would be.
C31_BackoffDelays ==
    /\ \A i \in DOMAIN r_sleeps :
        /\ r_sleeps[i] = BackoffMs(i - 1)
        /\ r_sleeps[i] >= 50
        /\ r_sleeps[i] <= 1000
    /\ r_pc \in {"attempt", "sent", "body", "sleeping", "done"} =>
        delay_ms = BackoffMs(try_num)

\* C31 witness: seven sleeps have been made; the fifth was 800 ms, the sixth
\* and the seventh are held at the ceiling.
C31_Witness_CeilingReached ==
    /\ Len(r_sleeps) = 7
    /\ r_sleeps[5] = 800
    /\ r_sleeps[6] = 1000
    /\ r_sleeps[7] = 1000

\* C32: exactly one sleep separates an attempt from the next one; there is
\* none before the first attempt, none after a success and none after the
\* last failure; with 0 retries op is invoked once and nothing is slept.
C32_SleepOnlyBetweenAttempts ==
    /\ r_pc = "idle" => (r_calls = << >> /\ r_sleeps = << >>)
    /\ r_pc \in {"attempt", "sent", "body"} =>
        (Len(r_sleeps) = Len(r_calls) /\ Len(r_sleeps) = try_num)
    /\ r_pc = "sleeping" =>
        /\ Len(r_sleeps) = Len(r_calls)
        /\ ~r_results[Len(r_results)].ok
        /\ Len(r_calls) <= r_retries
    /\ r_pc = "done" => Len(r_sleeps) = Len(r_calls) - 1
    /\ \A i \in DOMAIN r_sleeps : ~r_results[i].ok
    /\ (r_pc = "done" /\ r_retries = 0) =>
        (Len(r_calls) = 1 /\ r_sleeps = << >>)

\* C32 witness: with retries to spare the second attempt succeeded; one sleep
\* was made, between the two attempts.
C32_Witness_OneSleepThenSuccess ==
    /\ r_pc = "done"
    /\ r_retries = 3
    /\ Len(r_results) = 2
    /\ ~r_results[1].ok
    /\ r_results[2].ok
    /\ r_sleeps = <<50>>

\* ------------------------------------------------- the stdio loop, by step
\* longest input stream the loop is run on
MaxLines == 3

\* Lines::next returned Err
ReadError == [k |-> "ioerr"]

\* lines that are not JSON: their characters
TextLines ==
    {[k |-> "text", s |-> s] : s \in {<< >>, <<" ", "\t">>, <<"{">>}}

\* lines that are JSON: three requests, the first in the array form, and an
\* object without id
JsonLines ==
    {[k |-> "json", j |-> j] : j \in
        {JArr(<<JStr("2.0"), JNum(1), JStr("shutdown")>>),
         JObj([jsonrpc |-> JStr("2.0"), id |-> JStr("a"),
               method |-> JStr("tools.call"),
               params |-> JObj([name |-> JStr("spell.check"),
                                arguments |-> JObj([text |-> JStr("test")])])]),
         JObj([jsonrpc |-> JStr("2.0"), id |-> JNum(2),
               method |-> JStr("tools/call"),
               params |-> JObj([name |-> JStr("hello.echo")])]),
         JObj([jsonrpc |-> JStr("2.0"), method |-> JStr("tools.list")])}}

StdioItems == TextLines \cup JsonLines \cup {ReadError}

\* the input streams: at most MaxLines items, then end of input
Streams == UNION {[1..n -> StdioItems] : n \in 0..MaxLines}

\* the environment the stdio loop is started in: the spellcheck URL is set
LoopEnv ==
    [n \in EnvNames |-> IF n = "SPELLCHECK_BASE_URL" THEN Some(<<"h">>)
                        ELSE None]

\* line.trim().is_empty()
LineIsBlank_no_trim(line) == line.k = "text" /\ line.s = << >>

\* line.trim().is_empty() as it would be if it were always false
LineIsBlank_never(line) == FALSE

\* line.trim().is_empty()
LineIsBlank(line) == line.k = "text" /\ Trim(line.s) = << >>

\* the for loop ends when the iterator is exhausted
LoopEnds_only_eof(s) == s = << >>

\* the for loop ends when the iterator is exhausted or a read fails (break)
LoopEnds(s) == s = << >> \/ Head(s) = ReadError

\* the next line is read when the iteration before it kept going
CanRead_pipelined == l_pc \in {"read", "await_tool"}

\* the next line is read at the top of the loop, after the flush of the
\* iteration before it (or after its continue)
CanRead == l_pc = "read"

\* the response the loop at hand builds for a non-blank line
LoopResponse(line, order, ups) ==
    IF l_prog = "api" THEN handle_stdio_line(reg, line, order, ups).resp
    ELSE main_stdio_line(line).resp

\* call_tool(&reg, &r.params).await is reached: api/mcp.rs, a tools.call
AwaitsTool(line) ==
    /\ l_prog = "api"
    /\ FromStrRpcReq(line) # None
    /\ FromStrRpcReq(line)[1].method \in CallMethods

InitStdio ==
    /\ RetryIdle
    /\ overflow_checks = FALSE
    /\ env = LoopEnv
    /\ reg = build_registry(env)
    /\ reg2 = build_registry_v2_from_env(env)
    /\ handler = "none"
    /\ input = NoInput
    /\ req = None
    /\ resp = None
    /\ out = None
    /\ status = 0
    /\ call = NoCall
    /\ advertised = {}
    /\ others = << >>
    /\ l_prog \in {"api", "main"}
    /\ stdin \in Streams
    /\ l_pc = "read"
    /\ l_line = None
    /\ l_resp = None
    /\ consumed = << >>
    /\ l_decoded = << >>
    /\ stdout = << >>
    /\ l_ret = None
    /\ TasksIdle
    /\ RegIdle
    /\ SessIdle

\* top of the loop: the iterator yields the next line, or the loop ends;
\* a blank line is dropped by continue
LoopRead ==
    /\ CanRead
    /\ IF LoopEnds(stdin)
       THEN /\ l_pc' = "done"
            /\ l_ret' = Some("Ok")
            /\ UNCHANGED <<stdin, consumed, l_line>>
       ELSE /\ stdin' = Tail(stdin)
            /\ consumed' = Append(consumed, Head(stdin))
            /\ IF LineIsBlank(Head(stdin))
               THEN /\ l_pc' = "read"
                    /\ UNCHANGED l_line
               ELSE /\ l_pc' = "dispatch"
                    /\ l_line' = Some(Head(stdin))
            /\ UNCHANGED l_ret
    /\ UNCHANGED <<l_prog, l_resp, l_decoded, stdout>>
    /\ UNCHANGED dvars
    /\ UNCHANGED rvars
    /\ UNCHANGED cvars
    /\ UNCHANGED gvars
    /\ UNCHANGED svars

\* LoopDispatch as it would be if a line that does not decode ended the loop
LoopDispatch_breaks_on_parse_error ==
    /\ l_pc = "dispatch"
    /\ l_decoded' = Append(l_decoded, l_line[1])
    /\ IF FromStrRpcReq(l_line[1]) = None
       THEN /\ l_pc' = "done"
            /\ l_ret' = Some("Ok")
            /\ UNCHANGED l_resp
       ELSE /\ UNCHANGED l_ret
            /\ IF AwaitsTool(l_line[1])
               THEN /\ l_pc' = "await_tool"
                    /\ UNCHANGED l_resp
               ELSE /\ l_pc' = "write"
                    /\ \E order \in Orders(DOMAIN reg), ups \in RunsFor(reg) :
                        l_resp' = Some(LoopResponse(l_line[1], order, ups))
    /\ UNCHANGED <<l_prog, stdin, l_line, consumed, stdout>>
    /\ UNCHANGED dvars
    /\ UNCHANGED rvars
    /\ UNCHANGED cvars
    /\ UNCHANGED gvars
    /\ UNCHANGED svars

\* serde_json::from_str and the match on the method, up to the response or
\* to the await of the tool call
LoopDispatch ==
    /\ l_pc = "dispatch"
    /\ l_decoded' = Append(l_decoded, l_line[1])
    /\ IF AwaitsTool(l_line[1])
       THEN /\ l_pc' = "await_tool"
            /\ UNCHANGED l_resp
       ELSE /\ l_pc' = "write"
            /\ \E order \in Orders(DOMAIN reg), ups \in RunsFor(reg) :
                l_resp' = Some(LoopResponse(l_line[1], order, ups))
    /\ UNCHANGED <<l_prog, stdin, l_line, consumed, stdout, l_ret>>
    /\ UNCHANGED dvars
    /\ UNCHANGED rvars
    /\ UNCHANGED cvars
    /\ UNCHANGED gvars
    /\ UNCHANGED svars

\* the loop after call_tool(..).await: r is the response, or the panic
LoopAfterTool(r) ==
    IF IsPanic(r)
    THEN l_pc' = "panicked" /\ UNCHANGED l_resp
    ELSE l_pc' = "write" /\ l_resp' = Some(r)

\* the tool call has returned and the response is built from its outcome,
\* or it has panicked and the panic unwinds through the loop
LoopToolReturn ==
    /\ l_pc = "await_tool"
    /\ \E order \in Orders(DOMAIN reg), ups \in RunsFor(reg) :
        LoopAfterTool(LoopResponse(l_line[1], order, ups))
    /\ UNCHANGED <<l_prog, stdin, l_line, consumed, l_decoded, stdout, l_ret>>
    /\ UNCHANGED dvars
    /\ UNCHANGED rvars
    /\ UNCHANGED cvars
    /\ UNCHANGED gvars
    /\ UNCHANGED svars

\* to_string, println! and flush: the line is written, or println! panics
\* because stdout cannot be written to
LoopWrite ==
    /\ l_pc = "write"
    /\ \/ /\ stdout' = Append(stdout, RpcRespJson(l_resp[1]))
          /\ l_pc' = "read"
          /\ l_line' = None
          /\ l_resp' = None
       \/ /\ l_pc' = "panicked"
          /\ UNCHANGED <<stdout, l_line, l_resp>>
    /\ UNCHANGED <<l_prog, stdin, consumed, l_decoded, l_ret>>
    /\ UNCHANGED dvars
    /\ UNCHANGED rvars
    /\ UNCHANGED cvars
    /\ UNCHANGED gvars
    /\ UNCHANGED svars

NextStdio ==
    \/ LoopRead
    \/ LoopDispatch
    \/ LoopToolReturn
    \/ LoopWrite

SpecStdio == InitStdio /\ [][NextStdio]_vars

\* the loop is the only task of the process: a step that can be taken is
\* taken (a read returns, a dispatch returns, a write returns or fails)
SpecStdioFair == SpecStdio /\ WF_vars(NextStdio)

\* ------------------------------------------------------ stdio loop claims
\* a line of whitespace only, told without trim
IsBlankText(l) == l.k = "text" /\ \A i \in DOMAIN l.s : l.s[i] \in WhiteSpace

\* the non-blank lines among those read so far
NonBlankRead == SelectSeq(consumed, LAMBDA l : ~IsBlankText(l))

\* a line has been read and its response is not written yet
InFlight == l_pc \in {"dispatch", "await_tool", "write"}

\* C15 as claimed: when the loop has returned, it has written as many
\* response lines as it has read input lines.
C15_Claimed_OneResponsePerLine ==
    l_pc = "done" => Len(stdout) = Len(consumed)

\* C15, amended: when the loop has returned (no write to stdout having
\* failed), the number of response lines written equals the number of
\* non-blank input lines read; blank lines add nothing.
C15_OneResponsePerNonBlankLine ==
    l_pc = "done" =>
        /\ Len(stdout) = Len(NonBlankRead)
        /\ Len(stdout) <= Len(consumed)

\* C15 witness: the loop has returned after reading a request, an empty line
\* and another request, and has written two response lines.
C15_Witness_BlankBetweenRequests ==
    /\ l_pc = "done"
    /\ Len(consumed) = 3
    /\ consumed[1].k = "json"
    /\ consumed[2] = [k |-> "text", s |-> << >>]
    /\ consumed[3].k = "json"
    /\ Len(stdout) = 2

\* the loop has returned only at the end of input or at a failed read
EndedAtEndOfInput == stdin = << >> \/ Head(stdin) = ReadError

\* C16: a line that does not decode does not end the loop (the loop returns
\* only at the end of input or at a failed read), its response line is an
\* error -32700 with a null id and no result, and when the loop has returned
\* every non-blank line read, the ones after it included, has its response.
C16_MalformedLineAnswered ==
    /\ l_pc = "done" => EndedAtEndOfInput
    /\ l_pc = "done" => Len(stdout) = Len(NonBlankRead)
    /\ \A i \in DOMAIN stdout :
        /\ i \in DOMAIN NonBlankRead
        /\ FromStrRpcReq(NonBlankRead[i]) = None =>
            /\ stdout[i].o["id"] = JNull
            /\ "result" \notin DOMAIN stdout[i].o
            /\ "error" \in DOMAIN stdout[i].o
            /\ stdout[i].o["error"].o["code"] = JNum(-32700)

\* C16 witness: the first line was not JSON, the second was a request; the
\* loop has returned with a parse error and then a result written.
C16_Witness_GarbageThenRequest ==
    /\ l_pc = "done"
    /\ Len(consumed) = 2
    /\ consumed[1] = [k |-> "text", s |-> <<"{">>]
    /\ consumed[2].k = "json"
    /\ Len(stdout) = 2
    /\ stdout[1].o["error"].o["code"] = JNum(-32700)
    /\ "result" \in DOMAIN stdout[2].o

\* C17: reading a blank line (empty or whitespace only) takes the line off
\* the input and leaves the loop at its top: nothing is decoded, no response
\* is built and nothing is written.
C17_BlankLinesSkipped ==
    [][(l_pc = "read" /\ stdin # << >> /\ IsBlankText(Head(stdin))) =>
          /\ stdin' = Tail(stdin)
          /\ l_pc' = "read"
          /\ l_decoded' = l_decoded
          /\ l_resp' = None
          /\ stdout' = stdout]_vars

\* C17 witness: a line of a space and a tab has been read, with nothing decoded or
\* written, and the loop is about to read the line after it.
C17_Witness_WhitespaceLineRead ==
    /\ l_pc = "read"
    /\ consumed = <<[k |-> "text", s |-> <<" ", "\t">>]>>
    /\ l_decoded = << >>
    /\ stdout = << >>
    /\ stdin # << >>
    /\ Head(stdin).k = "json"

\* C18: the non-blank lines read are the lines answered plus at most the one
\* in flight (so a line is read only after the response to the line before
\* it is written, even while that line's tool call is awaited), and the
\* i-th response line answers the i-th non-blank line.
C18_Sequential ==
    /\ Len(NonBlankRead) =
        Len(stdout) + (IF InFlight \/ l_pc = "panicked" THEN 1 ELSE 0)
    /\ InFlight => l_line = Some(consumed[Len(consumed)])
    /\ \A i \in DOMAIN stdout :
        LET q == FromStrRpcReq(NonBlankRead[i])
        IN stdout[i].o["id"] = IF q = None THEN JNull ELSE q[1].id

\* C18 witness: the first line has been answered, the tool call of the
\* second is awaited, and a third line is waiting on the input.
C18_Witness_NextLineWaitsForToolCall ==
    /\ l_pc = "await_tool"
    /\ Len(stdout) = 1
    /\ Len(consumed) = 2
    /\ stdin # << >>
    /\ Head(stdin).k = "json"

\* C19: the loop terminates; when the input is at its end or the read fails
\* the loop returns Ok at once, writing nothing; it returns only then, never
\* reads past a failed read, and writes nothing after it has returned.
C19_LoopTerminates ==
    /\ <>(l_pc \in {"done", "panicked"})
    /\ [](l_pc = "done" =>
            /\ l_ret = Some("Ok")
            /\ EndedAtEndOfInput
            /\ \A i \in DOMAIN consumed : consumed[i] # ReadError)
    /\ [][(l_pc = "read" /\ EndedAtEndOfInput) =>
            (l_pc' = "done" /\ l_ret' = Some("Ok") /\ stdout' = stdout)]_vars
    /\ [][l_pc = "done" => (l_pc' = "done" /\ stdout' = stdout)]_vars

\* C19 witness: the loop has returned Ok at a failed read, after one
\* response, with a line still unread behind the failure.
C19_Witness_ReturnedAtReadError ==
    /\ l_pc = "done"
    /\ l_ret = Some("Ok")
    /\ Len(stdout) = 1
    /\ Len(stdin) = 2
    /\ Head(stdin) = ReadError
    /\ stdin[2].k = "json"

\* --------------------------------------- concurrent HTTP handler tasks
\* request bodies the concurrent tasks are given: both spellings of
\* tools.list, tool calls that succeed, fail in the tool and name no
\* registered tool, shutdown, initialize, and a method the dispatcher does
\* not know
ConcRequestJson ==
    {JObj([jsonrpc |-> JStr("2.0"), id |-> JNum(1),
           method |-> JStr("tools.list")]),
     JObj([jsonrpc |-> JStr("2.0"), id |-> JNum(2),
           method |-> JStr("tools/list")]),
     JObj([jsonrpc |-> JStr("2.0"), id |-> JStr("a"),
           method |-> JStr("tools.call"),
           params |-> JObj([name |-> JStr("spell.check"),
                            arguments |-> JObj([text |-> JStr("test")])])]),
     JObj([jsonrpc |-> JStr("2.0"), id |-> JNum(1),
           method |-> JStr("tools.call"),
           params |-> JObj([name |-> JStr("spell.check"),
                            arguments |-> JObj([text |-> JNum(123)])])]),
     JObj([jsonrpc |-> JStr("2.0"), id |-> JNum(2),
           method |-> JStr("tools/call"),
           params |-> JObj([name |-> JStr("does.not.exist")])]),
     JObj([jsonrpc |-> JStr("2.0"), id |-> JNull,
           method |-> JStr("shutdown")]),
     JObj([jsonrpc |-> JStr("2.0"), id |-> JNum(2),
           method |-> JStr("initialize")]),
     JObj([jsonrpc |-> JStr("2.0"), id |-> JStr("a"),
           method |-> JStr("nope")])}

ConcBodies ==
    {[k |-> "garbage"]} \cup {[k |-> "json", j |-> j] : j \in ConcRequestJson}

\* environments with SPELLCHECK_BASE_URL unset and set to a URL
ConcEnvs ==
    {[n \in EnvNames |-> None],
     [n \in EnvNames |-> IF n = "SPELLCHECK_BASE_URL" THEN Some(<<"h">>)
                         ELSE None]}

\* an environment with SPELLCHECK_BASE_URL set to blanks
BlankSpellEnv ==
    [n \in EnvNames |-> IF n = "SPELLCHECK_BASE_URL" THEN Some(<<" ", "\t">>)
                        ELSE None]

\* the process has started; build_registry has not run yet
InitConc ==
    /\ RetryIdle
    /\ LoopIdle
    /\ RegIdle
    /\ SessIdle
    /\ tasks = NoTasks
    /\ c_pc = "start"
    /\ overflow_checks = FALSE
    /\ env \in ConcEnvs \cup {BlankSpellEnv}
    /\ reg = EmptyMap
    /\ reg2 = build_registry_v2_from_env(env)
    /\ handler = "none"
    /\ input = NoInput
    /\ req = None
    /\ resp = None
    /\ out = None
    /\ status = 0
    /\ call = NoCall
    /\ advertised = {}
    /\ others = << >>

\* the steps of the main task leave the handler tasks alone
ConcMainFrame ==
    /\ UNCHANGED <<overflow_checks, env, reg2, handler, input, req, resp, out,
                   status, call, advertised, others>>
    /\ UNCHANGED tasks
    /\ UNCHANGED rvars
    /\ UNCHANGED lvars
    /\ UNCHANGED gvars
    /\ UNCHANGED svars

\* build_registry, first half: the map is made and the local spellcheck
\* tool inserted under "spell.check"
ConcBuildLocal ==
    /\ c_pc = "start"
    /\ reg' = MapInsert(EmptyMap, "spell.check", SpellcheckLocalBackend)
    /\ c_pc' = "local"
    /\ ConcMainFrame

\* build_registry, second half: with a SPELLCHECK_BASE_URL that is not blank
\* the remote tool is inserted under the same key; the map goes into the
\* Arc of the Registry, which becomes the state of the router
ConcBuildRemote ==
    /\ c_pc = "local"
    /\ reg' = IF env["SPELLCHECK_BASE_URL"] # None
                 /\ Trim(env["SPELLCHECK_BASE_URL"][1]) # << >>
              THEN MapInsert(reg, "spell.check",
                       SpellcheckRemoteBackend_new(
                           env["SPELLCHECK_BASE_URL"][1]))
              ELSE reg
    /\ c_pc' = "serving"
    /\ ConcMainFrame

\* a handler task that has made its response
TaskResponded(q, r) ==
    [pc |-> "responded", req |-> Some(q), id |-> Some(q.id), tool |-> None,
     args |-> None, resp |-> Some(r)]

\* api/mcp.rs http from its start to its response or, in call_tool, to
\* tool.call(args).await: id is cloned from the request; tools.list reads
\* the values of the registry; call_tool takes the name from params, looks
\* the tool up in the registry and takes the arguments (Null when absent).
\* The task keeps id, the tool it found and the arguments over the await.
HttpEnter(r, q, order) ==
    LET id == q.id
        name == GetStr(q.params, "name")
    IN CASE q.method = "initialize" ->
              TaskResponded(q, http_json_ok(id, InitializeResult))
         [] q.method = "shutdown" ->
              TaskResponded(q, http_json_ok(id, JNull))
         [] q.method \in {"tools.list", "tools/list"} ->
              TaskResponded(q, http_json_ok(id, tools_list(r, order)))
         [] q.method \in {"tools.call", "tools/call"} ->
              IF name = None
              THEN TaskResponded(q, from_gateway_error(id,
                       GatewayErrorMessage(<<"missing tool name">>)))
              ELSE IF name[1] \notin DOMAIN r
              THEN TaskResponded(q, from_gateway_error(id,
                       GatewayErrorMessage(<<"unknown tool", ": ", name[1]>>)))
              ELSE [pc |-> "awaiting", req |-> Some(q), id |-> Some(id),
                    tool |-> Some(r[name[1]]),
                    args |-> Some(IF Get(q.params, "arguments") = None
                                  THEN JNull
                                  ELSE Get(q.params, "arguments")[1]),
                    resp |-> None]
         [] OTHER ->
              TaskResponded(q, http_json_error(id, -32601,
                                   <<"unknown method", ": ", q.method>>))

\* a body the Json<RpcReq> extractor rejects: the handler does not run
TaskRejected ==
    [pc |-> "rejected", req |-> None, id |-> None, tool |-> None,
     args |-> None, resp |-> None]

\* the steps of the handler tasks leave the rest alone
ConcTaskFrame ==
    /\ UNCHANGED <<overflow_checks, env, reg2, handler, input, req, resp, out,
                   status, call, advertised, others>>
    /\ UNCHANGED c_pc
    /\ UNCHANGED rvars
    /\ UNCHANGED lvars
    /\ UNCHANGED gvars
    /\ UNCHANGED svars

\* ConcAccept as it would be if serving a tools.call emptied the registry
ConcAccept_unregisters(i) ==
    /\ c_pc = "serving"
    /\ tasks[i].pc = "free"
    /\ \A j \in 1..(i - 1) : tasks[j].pc # "free"
    /\ \E body \in ConcBodies, order \in Orders(DOMAIN reg) :
        LET q == FromStrRpcReq(body)
        IN /\ tasks' = [tasks EXCEPT ![i] =
                          IF q = None THEN TaskRejected
                          ELSE HttpEnter(reg, q[1], order)]
           /\ reg' = IF q # None /\ q[1].method \in CallMethods
                     THEN EmptyMap ELSE reg
    /\ ConcTaskFrame

\* a connection's task starts once the server serves: the extractor decodes
\* the body (or rejects it) and the handler, given the Registry of the
\* router's state, runs up to its response or to the await of the tool
ConcAccept(i) ==
    /\ c_pc = "serving"
    /\ tasks[i].pc = "free"
    /\ \A j \in 1..(i - 1) : tasks[j].pc # "free"
    /\ \E body \in ConcBodies, order \in Orders(DOMAIN reg) :
        LET q == FromStrRpcReq(body)
        IN tasks' = [tasks EXCEPT ![i] =
                        IF q = None THEN TaskRejected
                        ELSE HttpEnter(reg, q[1], order)]
    /\ UNCHANGED reg
    /\ ConcTaskFrame

\* a task after call_tool(..).await: r is the response, or the panic
TaskAfterTool(t, r) ==
    IF IsPanic(r)
    THEN [pc |-> "panicked", req |-> t.req, id |-> t.id, tool |-> None,
          args |-> None, resp |-> None]
    ELSE [pc |-> "responded", req |-> t.req, id |-> t.id, tool |-> None,
          args |-> None, resp |-> Some(r)]

\* ConcToolReturn as it would be if id and the arguments were kept in a slot
\* shared by the tasks: the response is built from those of another pending
\* task
ConcToolReturn_crossed(i) ==
    /\ tasks[i].pc = "awaiting"
    /\ \E j \in 1..MaxTasks, ups \in RunsFor(reg) :
        /\ tasks[j].pc = "awaiting"
        /\ (j = i => \A k \in 1..MaxTasks : k # i => tasks[k].pc # "awaiting")
        /\ tasks' = [tasks EXCEPT ![i] =
              TaskAfterTool(tasks[i],
                  http_call_arm(tasks[j].id[1],
                      ToolCall(tasks[i].tool[1], tasks[j].args[1],
                               ups).res))]
    /\ UNCHANGED reg
    /\ ConcTaskFrame

\* tool.call(args).await of a task is over: call_tool maps the error to its
\* text and the handler builds the response from the outcome and the id it
\* has kept; a panic of the tool ends the task without a response
ConcToolReturn(i) ==
    /\ tasks[i].pc = "awaiting"
    /\ \E ups \in RunsFor(reg) :
        tasks' = [tasks EXCEPT ![i] =
            TaskAfterTool(tasks[i],
                http_call_arm(tasks[i].id[1],
                    ToolCall(tasks[i].tool[1], tasks[i].args[1], ups).res))]
    /\ UNCHANGED reg
    /\ ConcTaskFrame

NextConc ==
    \/ ConcBuildLocal
    \/ ConcBuildRemote
    \/ \E i \in 1..MaxTasks : ConcAccept(i)
    \/ \E i \in 1..MaxTasks : ConcToolReturn(i)

SpecConc == InitConc /\ [][NextConc]_vars

\* ----------------------------------------------------- concurrency claims
TaskListed(i) ==
    /\ tasks[i].pc = "responded"
    /\ tasks[i].req[1].method \in {"tools.list", "tools/list"}

\* the names of the tools the registry built at startup holds
StartupToolNames ==
    {ToolName(build_registry(env)[k]) : k \in DOMAIN build_registry(env)}

\* C21: once the server serves, whatever requests have been taken
\* (initialize, shutdown, tools.list, tools.call, unknown method, unknown
\* tool, rejected body), answered or still waiting for their tool, the
\* registry is the one build_registry made at startup; every tools.list
\* response names exactly the tools of that registry, so any two of them name
\* the same set.
C21_RegistryUnchanged ==
    c_pc = "serving" =>
        /\ reg = build_registry(env)
        /\ \A i \in 1..MaxTasks :
            TaskListed(i) =>
                /\ tasks[i].resp[1].result # None
                /\ ListedNames(tasks[i].resp[1].result[1]) = StartupToolNames
        /\ \A i, j \in 1..MaxTasks :
            (TaskListed(i) /\ TaskListed(j)) =>
                ListedNames(tasks[i].resp[1].result[1]) =
                ListedNames(tasks[j].resp[1].result[1])

\* C21 witness: with the remote spellcheck tool registered at startup, a
\* tools.list was answered, a tools.call that started after it returned a
\* result, and a tools.list that started after that call was answered too.
C21_Witness_ListCallList ==
    /\ c_pc = "serving"
    /\ reg["spell.check"].kind = "SpellcheckRemoteBackend"
    /\ TaskListed(1)
    /\ tasks[2].pc = "responded"
    /\ tasks[2].req[1].method = "tools.call"
    /\ tasks[2].resp[1].result # None
    /\ TaskListed(3)

\* the registry the server was started with
StartupRegistry == build_registry(env)

\* C26: a task's response carries the id of the task's own request and is
\* the response api/mcp.rs http gives that request when it is dispatched
\* alone over the registry built at startup, whatever the other tasks have
\* done between its start and its response.
C26_NoInterference ==
    \A i \in 1..MaxTasks :
        tasks[i].pc = "responded" =>
            /\ tasks[i].resp # None
            /\ tasks[i].resp[1].id = tasks[i].req[1].id
            /\ \E order \in Orders(DOMAIN StartupRegistry),
                  ups \in RunsFor(StartupRegistry) :
                tasks[i].resp[1] =
                    http(StartupRegistry, tasks[i].req[1], order, ups).resp

\* C26 witness: two tool calls were pending at once and the one that
\* started later has been answered first.
C26_Witness_LaterCallAnsweredFirst ==
    /\ tasks[1].pc = "awaiting"
    /\ tasks[1].req[1].id = JStr("a")
    /\ tasks[2].pc = "responded"
    /\ tasks[2].req[1].id = JNum(1)
    /\ tasks[2].req[1].method = "tools.call"
    /\ tasks[2].resp[1].error # None

\* ------------------------------------ putting a ToolRegistry together
\* most insertions one registry is given
MaxRegs == 3

\* the tools at hand: two names, more than one tool for each
RegTools ==
    {GrammarLocalBackend, GrammarRemoteBackend_new(<<"h">>),
     GrammarRemoteBackend_new(<<"g">>), SpellcheckLocalBackend,
     SpellcheckRemoteBackend_new(<<"h">>)}

\* with_tools takes an iterator of Arc<T>: tools of one type
ToolRuns ==
    {ts \in UNION {[1..n -> RegTools] : n \in 0..MaxRegs} :
        \A i, j \in DOMAIN ts : ts[i].kind = ts[j].kind}

\* for t in iter { map.insert(t.name(), t) }
RECURSIVE InsertAll(_, _)
InsertAll(m, ts) ==
    IF ts = << >> THEN m
    ELSE InsertAll(MapInsert(m, ToolName(Head(ts)), Head(ts)), Tail(ts))

InitReg ==
    /\ RetryIdle
    /\ LoopIdle
    /\ TasksIdle
    /\ RegIdle
    /\ SessIdle
    /\ overflow_checks = FALSE
    /\ env \in ConcEnvs
    /\ reg = build_registry(env)
    /\ reg2 = build_registry_v2_from_env(env)
    /\ handler = "none"
    /\ input = NoInput
    /\ req = None
    /\ resp = None
    /\ out = None
    /\ status = 0
    /\ call = NoCall
    /\ advertised = {}
    /\ others = << >>

\* ToolRegistry::new
RegNew ==
    /\ g_pc = "none"
    /\ g_pc' = "built"
    /\ treg' = EmptyMap
    /\ UNCHANGED <<g_regs, g_shared>>
    /\ UNCHANGED <<dvars, rvars, lvars, cvars, svars>>

\* ToolRegistry::with_tools
RegWithTools ==
    /\ g_pc = "none"
    /\ \E ts \in ToolRuns :
        /\ treg' = InsertAll(EmptyMap, ts)
        /\ g_regs' = ts
    /\ g_pc' = "built"
    /\ UNCHANGED g_shared
    /\ UNCHANGED <<dvars, rvars, lvars, cvars, svars>>

\* ToolRegistry::register as it would be if it wrote through the Arc
\* whether or not a clone is alive
RegRegister_ignores_clones ==
    /\ g_pc = "built"
    /\ Len(g_regs) < MaxRegs
    /\ \E t \in RegTools :
        /\ treg' = MapInsert(treg, ToolName(t), t)
        /\ g_regs' = Append(g_regs, t)
        /\ UNCHANGED g_pc
    /\ UNCHANGED g_shared
    /\ UNCHANGED <<dvars, rvars, lvars, cvars, svars>>

\* ToolRegistry::register: Arc::get_mut gives the map only while no clone
\* of the registry is alive; otherwise expect panics
RegRegister ==
    /\ g_pc = "built"
    /\ Len(g_regs) < MaxRegs
    /\ \E t \in RegTools :
        IF g_shared
        THEN /\ g_pc' = "panicked"
             /\ UNCHANGED <<treg, g_regs>>
        ELSE /\ treg' = MapInsert(treg, ToolName(t), t)
             /\ g_regs' = Append(g_regs, t)
             /\ UNCHANGED g_pc
    /\ UNCHANGED g_shared
    /\ UNCHANGED <<dvars, rvars, lvars, cvars, svars>>

\* the registry is cloned (handed to a router as state)
RegClone ==
    /\ g_pc = "built"
    /\ ~g_shared
    /\ g_shared' = TRUE
    /\ UNCHANGED <<treg, g_pc, g_regs>>
    /\ UNCHANGED <<dvars, rvars, lvars, cvars, svars>>

\* the clone is dropped
RegDropClone ==
    /\ g_pc = "built"
    /\ g_shared
    /\ g_shared' = FALSE
    /\ UNCHANGED <<treg, g_pc, g_regs>>
    /\ UNCHANGED <<dvars, rvars, lvars, cvars, svars>>

NextReg ==
    \/ RegNew
    \/ RegWithTools
    \/ RegRegister
    \/ RegClone
    \/ RegDropClone

SpecReg == InitReg /\ [][NextReg]_vars

\* ---------------------------------------------------- registration claims
\* the insertions made under a name, as positions of g_regs
RegsUnder(name) == {i \in DOMAIN g_regs : ToolName(g_regs[i]) = name}

Max(S) == CHOOSE x \in S : \A y \in S : y <= x

\* C22: the registry holds a tool under exactly the names that tools were
\* inserted under, and under each name the tool inserted last under that
\* name; build_registry's second insert under "spell.check" likewise
\* replaces the first.
C22_LastWriteWins ==
    /\ DOMAIN treg = {ToolName(g_regs[i]) : i \in DOMAIN g_regs}
    /\ \A name \in DOMAIN treg : treg[name] = g_regs[Max(RegsUnder(name))]
    /\ DOMAIN reg = {"spell.check"}
    /\ reg["spell.check"] =
        IF env["SPELLCHECK_BASE_URL"] = None THEN SpellcheckLocalBackend
        ELSE SpellcheckRemoteBackend_new(env["SPELLCHECK_BASE_URL"][1])

\* C22 witness: the local grammar tool, a spellcheck tool and then the remote
\* grammar tool were inserted; the registry holds the remote grammar tool
\* and the spellcheck tool.
C22_Witness_StubUpgraded ==
    /\ g_pc = "built"
    /\ Len(g_regs) = 3
    /\ g_regs[1] = GrammarLocalBackend
    /\ g_regs[2].kind = "SpellcheckRemoteBackend"
    /\ g_regs[3] = GrammarRemoteBackend_new(<<"h">>)
    /\ treg["gael.grammar_check.v2"] = GrammarRemoteBackend_new(<<"h">>)
    /\ treg["gael.spellcheck.v1"] = g_regs[2]

\* a step of the registration machine keeps to the sharing rule of register
RegisterStepOk ==
    /\ g_shared => (treg' = treg /\ g_regs' = g_regs)
    /\ (g_pc = "built" /\ g_regs' # g_regs) => (~g_shared /\ g_pc' = "built")
    /\ (g_pc = "built" /\ g_pc' = "panicked") => (g_shared /\ treg' = treg)

\* C38: register inserts only while no clone of the registry is alive; on
\* a registry that has a live clone it panics and the map the clone shares
\* stays as it was, so no step changes a shared map.
C38_SharedRegistryFrozen == [][RegisterStepOk]_vars

\* C38 witness: a registry holding a tool was cloned and register was then
\* called on it: it panicked, and the shared map still holds that one tool.
C38_Witness_RegisterOnSharedPanicked ==
    /\ g_pc = "panicked"
    /\ g_shared
    /\ Len(g_regs) = 1
    /\ DOMAIN treg = {ToolName(g_regs[1])}


\* ------------------------------------------ infra/runtime/session.rs
\* most set and delete calls followed
MaxSessionOps == 3

\* most InMemorySessionStore values alive at once
MaxHandles == 2

SessionKeys == {"s1", "s2"}
SessionValues == {JNull, JStr("v")}

\* HashMap::get(key).cloned()
MapGet(m, k) == IF k \in DOMAIN m THEN Some(m[k]) ELSE None

\* HashMap::remove as it would be if it emptied the map
MapRemove_clears(m, k) == EmptyMap

\* HashMap::remove
MapRemove(m, k) == [x \in DOMAIN m \ {k} |-> m[x]]

\* InMemorySessionStore::get on the store that points to map id
InMemorySessionStore_get(heap, id, key) == MapGet(heap[id], key)

\* InMemorySessionStore::set: the heap afterwards
InMemorySessionStore_set(heap, id, key, val) ==
    [heap EXCEPT ![id] = MapInsert(heap[id], key, val)]

\* InMemorySessionStore::delete: the heap afterwards
InMemorySessionStore_delete(heap, id, key) ==
    [heap EXCEPT ![id] = MapRemove(heap[id], key)]

\* derive(Clone) of InMemorySessionStore: Arc::clone, the new value points
\* to the same map
InMemorySessionStore_clone(heap, id) == [heap |-> heap, id |-> id]

InitSession ==
    /\ RetryIdle
    /\ LoopIdle
    /\ TasksIdle
    /\ RegIdle
    /\ SessIdle
    /\ overflow_checks = FALSE
    /\ env = [n \in EnvNames |-> None]
    /\ reg = build_registry(env)
    /\ reg2 = build_registry_v2_from_env(env)
    /\ handler = "none"
    /\ input = NoInput
    /\ req = None
    /\ resp = None
    /\ out = None
    /\ status = 0
    /\ call = NoCall
    /\ advertised = {}
    /\ others = << >>

\* InMemorySessionStore::new: Default, an empty map behind a new Arc
SessNew ==
    /\ s_handles = << >>
    /\ s_heap' = <<EmptyMap>>
    /\ s_handles' = <<1>>
    /\ UNCHANGED <<s_ops, s_got>>
    /\ UNCHANGED <<dvars, rvars, lvars, cvars, gvars>>

\* store.clone() of the value h
SessClone ==
    /\ Len(s_handles) < MaxHandles
    /\ \E h \in DOMAIN s_handles :
        LET c == InMemorySessionStore_clone(s_heap, s_handles[h])
        IN /\ s_heap' = c.heap
           /\ s_handles' = Append(s_handles, c.id)
    /\ UNCHANGED <<s_ops, s_got>>
    /\ UNCHANGED <<dvars, rvars, lvars, cvars, gvars>>

\* the value made last is dropped while another one is alive
SessDrop ==
    /\ Len(s_handles) > 1
    /\ s_handles' = SubSeq(s_handles, 1, Len(s_handles) - 1)
    /\ UNCHANGED <<s_heap, s_ops, s_got>>
    /\ UNCHANGED <<dvars, rvars, lvars, cvars, gvars>>

\* h.set(key, val): lock, insert, unlock
SessSet ==
    /\ Len(s_ops) < MaxSessionOps
    /\ \E h \in DOMAIN s_handles, key \in SessionKeys, val \in SessionValues :
        /\ s_heap' = InMemorySessionStore_set(s_heap, s_handles[h], key, val)
        /\ s_ops' = Append(s_ops, [op |-> "set", key |-> key, val |-> val])
    /\ UNCHANGED <<s_handles, s_got>>
    /\ UNCHANGED <<dvars, rvars, lvars, cvars, gvars>>

\* h.delete(key): lock, remove, unlock
SessDelete ==
    /\ Len(s_ops) < MaxSessionOps
    /\ \E h \in DOMAIN s_handles, key \in SessionKeys :
        /\ s_heap' = InMemorySessionStore_delete(s_heap, s_handles[h], key)
        /\ s_ops' = Append(s_ops, [op |-> "delete", key |-> key])
    /\ UNCHANGED <<s_handles, s_got>>
    /\ UNCHANGED <<dvars, rvars, lvars, cvars, gvars>>

\* h.get(key): lock, look up, clone the value, unlock
SessGet ==
    /\ \E h \in DOMAIN s_handles, key \in SessionKeys :
        s_got' = Some([h |-> h, key |-> key,
                       v |-> InMemorySessionStore_get(s_heap, s_handles[h],
                                                      key),
                       at |-> Len(s_ops)])
    /\ UNCHANGED <<s_heap, s_handles, s_ops>>
    /\ UNCHANGED <<dvars, rvars, lvars, cvars, gvars>>

NextSession ==
    \/ SessNew
    \/ SessClone
    \/ SessDrop
    \/ SessSet
    \/ SessDelete
    \/ SessGet

SpecSession == InitSession /\ [][NextSession]_vars

\* ------------------------------------------------- session store claims
\* the positions of ops at which key was set or deleted
OpsOn(ops, key) == {i \in DOMAIN ops : ops[i].key = key}

\* what the calls ops leave under key: the value of the last set of key
\* that no delete of key followed
LeftUnder(ops, key) ==
    IF OpsOn(ops, key) = {} THEN None
    ELSE IF ops[Max(OpsOn(ops, key))].op = "set"
         THEN Some(ops[Max(OpsOn(ops, key))].val)
         ELSE None

\* every value alive answers get as the calls made so far left it, and the
\* latest get answered as the calls made before it left it
GetSeesLatest ==
    /\ \A h \in DOMAIN s_handles, key \in SessionKeys :
        InMemorySessionStore_get(s_heap, s_handles[h], key)
            = LeftUnder(s_ops, key)
    /\ s_got # None =>
        s_got[1].v = LeftUnder(SubSeq(s_ops, 1, s_got[1].at), s_got[1].key)

\* a set or delete of one key leaves what get returns for any other key
OtherKeysKept ==
    \A h \in DOMAIN s_handles, key \in SessionKeys :
        (s_ops' # s_ops /\ s_ops'[Len(s_ops')].key # key) =>
            InMemorySessionStore_get(s_heap', s_handles[h], key)
                = InMemorySessionStore_get(s_heap, s_handles[h], key)

\* C37: through whichever clone the calls are made, get(k) returns the
\* value of the latest set(k, v) that no later delete(k) followed and None
\* otherwise, and a set or delete of one key does not change what get
\* returns for another key.
C37_SessionStoreLastWrite == [](GetSeesLatest) /\ [][OtherKeysKept]_vars

\* C37 witness: s1 was set through the first value and deleted through its
\* clone while s2 stayed set; get of s1 through the first value gave None.
C37_Witness_DeletedThroughClone ==
    /\ Len(s_handles) = 2
    /\ s_ops = <<[op |-> "set", key |-> "s2", val |-> JNull],
                 [op |-> "set", key |-> "s1", val |-> JStr("v")],
                 [op |-> "delete", key |-> "s1"]>>
    /\ s_got = Some([h |-> 1, key |-> "s1", v |-> None, at |-> 3])
    /\ InMemorySessionStore_get(s_heap, s_handles[2], "s2") = Some(JNull)

====
